---- MODULE Spec2Model ----
(***************************************************************************)
(* Document ledger (zustand stores of lib/store.ts) and organizational-    *)
(* unit registry (lib/filiais.ts) of the NF-e / NFS-e conferencing         *)
(* front end.                                                              *)
(*                                                                         *)
(* Representation of JavaScript values:                                    *)
(*   - a string is a sequence of one-character strings;                    *)
(*   - null and undefined, where a string is expected, are the sequences   *)
(*     <<"null">> and <<"undefined">> (never equal to a string, whose      *)
(*     elements have one character);                                       *)
(*   - an object is a record; an optional property that was never          *)
(*     assigned is a missing field;                                        *)
(*   - a Date is the record [kind |-> "Date", ms |-> t].                   *)
(***************************************************************************)
EXTENDS Integers, Sequences, FiniteSets, TLC

VARIABLES
  notes,            \* useNotesStore: notes (ProcessedNote[])
  selectedNoteId,   \* useNotesStore: selectedNoteId (string | null)
  call,             \* the store call that completed last: its name, id argument, outcome
  order,            \* the two catalog positions exchanged before the index is filled
  query,            \* the last argument given to getFilialByCnpj by a registry lookup
  resolved,         \* what that lookup returned
  nfseNotes,        \* useNfseStore: nfseNotes (ProcessedNfse[])
  selectedNfseId,   \* useNfseStore: selectedNfseId (string | null)
  files,            \* UploadPage: files (FileStatus[])
  isProcessing,     \* UploadPage: isProcessing
  run,              \* the processFiles call in flight: its position, i, and the files it closed over
  dropped,          \* the File objects handed to the upload page so far
  localStorage,     \* window.localStorage: the item persist() keeps for each store
  edit,             \* the change made to one entry of FILIAIS before the module was loaded
  quota,            \* whether the origin's storage accepts a write or throws QuotaExceededError
  page              \* LancamentoPage: whether it is mounted, and its useState values

vars == <<notes, selectedNoteId, call, order, query, resolved,
          nfseNotes, selectedNfseId, files, isProcessing, run, dropped,
          localStorage, quota, edit, page>>

----------------------------------------------------------------------------
(* Bounds of the model *)

MaxNotes == 2
MaxTime == 0
MaxFiles == 3
MaxResults == 2
MaxDocs == 4
MaxLen == 3

----------------------------------------------------------------------------
(* JavaScript values *)

null == <<"null">>
undefined == <<"undefined">>
nullFilial == [null |-> TRUE]

Date(t) == [kind |-> "Date", ms |-> t]
Times == 0..MaxTime

Digit == {"0","1","2","3","4","5","6","7","8","9"}

----------------------------------------------------------------------------
(* lib/filiais.ts: the catalog *)

CNPJ_MATRIZ == <<"1","1","8","5","8","5","7","0","0","0","0","1","3","3">>

FILIAIS ==
  <<
    [codigo |-> 1, cnpj |-> <<"1","1","8","5","8","5","7","0","0","0","0","1","3","3">>, uf |-> "BA", tipo |-> "matriz"],
    [codigo |-> 2, cnpj |-> <<"1","1","8","5","8","5","7","0","0","0","0","3","0","3">>, uf |-> "BA", tipo |-> "hospital"],
    [codigo |-> 3, cnpj |-> <<"1","1","8","5","8","5","7","0","0","0","0","2","1","4">>, uf |-> "GO", tipo |-> "hospital"],
    [codigo |-> 4, cnpj |-> <<"1","1","8","5","8","5","7","0","0","0","0","4","8","6">>, uf |-> "GO", tipo |-> "hospital"],
    [codigo |-> 5, cnpj |-> <<"1","1","8","5","8","5","7","0","0","0","0","5","6","7">>, uf |-> "GO", tipo |-> "filial"],
    [codigo |-> 6, cnpj |-> <<"1","1","8","5","8","5","7","0","0","0","0","6","4","8">>, uf |-> "RJ", tipo |-> "hospital"],
    [codigo |-> 7, cnpj |-> <<"1","1","8","5","8","5","7","0","0","0","1","0","2","4">>, uf |-> "BA", tipo |-> "upa"],
    [codigo |-> 8, cnpj |-> <<"1","1","8","5","8","5","7","0","0","0","0","7","2","9">>, uf |-> "BA", tipo |-> "upa"],
    [codigo |-> 9, cnpj |-> <<"1","1","8","5","8","5","7","0","0","0","0","8","0","0">>, uf |-> "BA", tipo |-> "hospital"],
    [codigo |-> 10, cnpj |-> <<"1","1","8","5","8","5","7","0","0","0","0","9","9","0">>, uf |-> "PI", tipo |-> "hospital"],
    [codigo |-> 11, cnpj |-> <<"1","1","8","5","8","5","7","0","0","0","0","1","3","3">>, uf |-> "RJ", tipo |-> "filial"],
    [codigo |-> 12, cnpj |-> <<"1","1","8","5","8","5","7","0","0","0","1","1","0","5">>, uf |-> "BA", tipo |-> "upa"],
    [codigo |-> 13, cnpj |-> <<"1","1","8","5","8","5","7","0","0","0","1","2","9","6">>, uf |-> "ES", tipo |-> "hospital"],
    [codigo |-> 14, cnpj |-> <<"1","1","8","5","8","5","7","0","0","0","1","3","7","7">>, uf |-> "BA", tipo |-> "hospital"],
    [codigo |-> 15, cnpj |-> <<"1","1","8","5","8","5","7","0","0","0","1","4","5","8">>, uf |-> "MG", tipo |-> "filial"],
    [codigo |-> 16, cnpj |-> <<"1","1","8","5","8","5","7","0","0","0","1","6","1","0">>, uf |-> "BA", tipo |-> "hospital"],
    [codigo |-> 17, cnpj |-> <<"1","1","8","5","8","5","7","0","0","0","1","5","3","9">>, uf |-> "BA", tipo |-> "filial"],
    [codigo |-> 18, cnpj |-> <<"1","1","8","5","8","5","7","0","0","0","0","1","3","3">>, uf |-> "BA", tipo |-> "upa"],
    [codigo |-> 19, cnpj |-> <<"1","1","8","5","8","5","7","0","0","0","1","8","8","1">>, uf |-> "BA", tipo |-> "upa"],
    [codigo |-> 20, cnpj |-> <<"1","1","8","5","8","5","7","0","0","0","2","2","6","8">>, uf |-> "BA", tipo |-> "hospital"],
    [codigo |-> 22, cnpj |-> <<"1","1","8","5","8","5","7","0","0","0","2","8","5","3">>, uf |-> "BA", tipo |-> "upa"],
    [codigo |-> 23, cnpj |-> <<"1","1","8","5","8","5","7","0","0","0","0","1","3","3">>, uf |-> "BA", tipo |-> "aps"],
    [codigo |-> 24, cnpj |-> <<"1","1","8","5","8","5","7","0","0","0","1","9","6","2">>, uf |-> "GO", tipo |-> "hospital"],
    [codigo |-> 25, cnpj |-> <<"1","1","8","5","8","5","7","0","0","0","0","1","3","3">>, uf |-> "BA", tipo |-> "aps"],
    [codigo |-> 26, cnpj |-> <<"1","1","8","5","8","5","7","0","0","0","1","7","0","9">>, uf |-> "GO", tipo |-> "escritorio"],
    [codigo |-> 28, cnpj |-> <<"1","1","8","5","8","5","7","0","0","0","0","1","3","3">>, uf |-> "RN", tipo |-> "aps"],
    [codigo |-> 32, cnpj |-> <<"1","1","8","5","8","5","7","0","0","0","2","7","7","2">>, uf |-> "BA", tipo |-> "upa"],
    [codigo |-> 33, cnpj |-> <<"1","1","8","5","8","5","7","0","0","0","0","1","3","3">>, uf |-> "BA", tipo |-> "upa"],
    [codigo |-> 34, cnpj |-> <<"1","1","8","5","8","5","7","0","0","0","0","1","3","3">>, uf |-> "SE", tipo |-> "aps"],
    [codigo |-> 35, cnpj |-> <<"1","1","8","5","8","5","7","0","0","0","0","1","3","3">>, uf |-> "GO", tipo |-> "hospital"],
    [codigo |-> 36, cnpj |-> <<"1","1","8","5","8","5","7","0","0","0","2","1","8","7">>, uf |-> "BA", tipo |-> "hospital"],
    [codigo |-> 37, cnpj |-> <<"1","1","8","5","8","5","7","0","0","0","2","0","0","4">>, uf |-> "BA", tipo |-> "clinica"],
    [codigo |-> 38, cnpj |-> <<"1","1","8","5","8","5","7","0","0","0","2","3","4","9">>, uf |-> "SE", tipo |-> "hospital"],
    [codigo |-> 39, cnpj |-> <<"1","1","8","5","8","5","7","0","0","0","2","6","9","1">>, uf |-> "BA", tipo |-> "escritorio"],
    [codigo |-> 40, cnpj |-> <<"1","1","8","5","8","5","7","0","0","0","2","5","0","0">>, uf |-> "BA", tipo |-> "clinica"]
  >>

----------------------------------------------------------------------------
(* lib/filiais.ts: TaxIdNormalizer *)

IsDigit(c) == c \in Digit

\* normalizeCnpj with a pattern that removes dots and dashes only
normalizeCnpj_dots(cnpj) ==
  IF cnpj = null \/ cnpj = undefined \/ cnpj = <<>>
  THEN <<>>
  ELSE SelectSeq(cnpj, LAMBDA c : c \notin {".", "-"})

\* the pattern without its g flag: the first non-digit removed only
normalizeCnpj_first(cnpj) ==
  IF cnpj = null \/ cnpj = undefined \/ cnpj = <<>>
  THEN <<>>
  ELSE LET others == {i \in 1..Len(cnpj) : ~IsDigit(cnpj[i])} IN
       IF others = {} THEN cnpj
       ELSE LET first == CHOOSE i \in others : \A j \in others : i <= j IN
            SubSeq(cnpj, 1, first - 1) \o SubSeq(cnpj, first + 1, Len(cnpj))

\* if (!cnpj) return ""; return cnpj.replace(/\D/g, "")
normalizeCnpj(cnpj) ==
  IF cnpj = null \/ cnpj = undefined \/ cnpj = <<>>
  THEN <<>>
  ELSE SelectSeq(cnpj, IsDigit)

\* the length of the argument tested in place of the length of its digits
formatCnpj_raw(cnpj) ==
  LET digits == normalizeCnpj(cnpj) IN
  IF cnpj = null \/ cnpj = undefined
  THEN <<>>
  ELSE IF Len(cnpj) # 14 \/ Len(digits) # 14
  THEN cnpj
  ELSE SubSeq(digits, 1, 2) \o <<".">> \o SubSeq(digits, 3, 5) \o <<".">>
       \o SubSeq(digits, 6, 8) \o <<"/">> \o SubSeq(digits, 9, 12) \o <<"-">>
       \o SubSeq(digits, 13, 14)

\* digits.length !== 14 ? (cnpj || "") : XX.XXX.XXX/XXXX-XX
formatCnpj(cnpj) ==
  LET digits == normalizeCnpj(cnpj) IN
  IF Len(digits) # 14
  THEN IF cnpj = null \/ cnpj = undefined THEN <<>> ELSE cnpj
  ELSE SubSeq(digits, 1, 2) \o <<".">> \o SubSeq(digits, 3, 5) \o <<".">>
       \o SubSeq(digits, 6, 8) \o <<"/">> \o SubSeq(digits, 9, 12) \o <<"-">>
       \o SubSeq(digits, 13, 14)

----------------------------------------------------------------------------
(* lib/filiais.ts: the lookup index *)

\* a Map is the sequence of its entries [key, value] in insertion order
MapHas(map, key) == \E i \in 1..Len(map) : map[i].key = key

\* Map.prototype.get(key) || null
MapGet(map, key) ==
  IF MapHas(map, key)
  THEN map[CHOOSE i \in 1..Len(map) : map[i].key = key].value
  ELSE nullFilial

\* the condition with the test of the unit code inverted
admits_inverted(filial) == filial.cnpj # CNPJ_MATRIZ \/ filial.codigo # 1

\* no condition: every unit is entered, the last one of a tax id staying
admits_all(filial) == TRUE

\* the condition of the forEach callback that fills cnpjToFilialMap
admits(filial) == filial.cnpj # CNPJ_MATRIZ \/ filial.codigo = 1

\* catalog.forEach((filial) => { if (admits) map.set(filial.cnpj, filial) }) over
\* an empty Map: set() of a key not yet present appends an entry, set() of a key
\* already present replaces the value of its entry. The Map that results has one
\* entry per tax id of an admitted unit, at the place of the first such unit and
\* with the last such unit as its value.
buildIndex(catalog) ==
  LET set == {i \in 1..Len(catalog) : admits(catalog[i])}
      setsOf(i) == {j \in set : catalog[j].cnpj = catalog[i].cnpj}
      first == SelectSeq([i \in 1..Len(catalog) |-> i],
                         LAMBDA i : i \in set /\ \A j \in setsOf(i) : i <= j)
      last(i) == CHOOSE j \in setsOf(i) : \A k \in setsOf(i) : k <= j
  IN [n \in 1..Len(first) |->
        [key |-> catalog[first[n]].cnpj, value |-> catalog[last(first[n])]]] \o <<>>

\* the module-level index, filled from FILIAIS when the module is loaded
cnpjToFilialMap == buildIndex(FILIAIS)

\* getFilialByCnpj looking up its argument as given, not normalized
lookup_raw(map, cnpjDest) ==
  IF cnpjDest = null \/ cnpjDest = undefined \/ cnpjDest = <<>>
  THEN nullFilial
  ELSE MapGet(map, cnpjDest)

\* the body of getFilialByCnpj over a given index
lookup(map, cnpjDest) ==
  LET cnpjNormalizado == normalizeCnpj(cnpjDest) IN
  IF cnpjNormalizado = <<>> THEN nullFilial ELSE MapGet(map, cnpjNormalizado)

getFilialByCnpj(cnpjDest) == lookup(cnpjToFilialMap, cnpjDest)

\* what Array.prototype.find returns when no element passes
undefinedFilial == [undefined |-> TRUE]

\* catalog.find((f) => f.codigo === 1)
find(catalog) ==
  IF \E i \in 1..Len(catalog) : catalog[i].codigo = 1
  THEN catalog[CHOOSE i \in 1..Len(catalog) :
                 /\ catalog[i].codigo = 1
                 /\ \A j \in 1..(i - 1) : catalog[j].codigo # 1]
  ELSE undefinedFilial

\* FILIAIS.find((f) => f.codigo === 1)!
getMatriz == find(FILIAIS)

\* the catalog as the source has it
NoEdit == [kind |-> "none", at |-> 0, tipo |-> "none"]

----------------------------------------------------------------------------
(* lib/store.ts: the NF-e ledger (useNotesStore) *)

\* the values generateId() can return: Math.random() is not checked against
\* the ids already in the collection
GeneratedIds == {<<"a">>, <<"b">>}

Filenames == {<<"n", ".", "x", "m", "l">>}

\* NFeExtractResponse, reduced to what the ledger reads: dest.doc (string | null)
\* and totals.vNF (number | null, null being a missing field)
Payloads ==
  <<
    [dest |-> [doc |-> null], totals |-> [vNF |-> 10]],
    [dest |-> [doc |-> formatCnpj(CNPJ_MATRIZ)], totals |-> [none |-> TRUE]],
    [dest |-> [doc |-> FILIAIS[2].cnpj], totals |-> [vNF |-> 20]],
    [dest |-> [doc |-> <<"0","0","0","0","0","0","0","0","0","0","0","0","0","0">>],
     totals |-> [vNF |-> 10]]
  >>

\* operatorName?: string; the pages never pass one
Operators == {undefined}

\* notes?: string
NoteTexts == {undefined, <<"o", "k">>}

\* reason: string
Reasons == {<<>>, <<" ">>, <<"n", "o">>}

\* String.prototype.trim() on a reason, as a truth value
IsBlank(reason) == \A i \in 1..Len(reason) : reason[i] = " "

\* { ...a, ...b }
spread(a, b) ==
  [k \in (DOMAIN a) \cup (DOMAIN b) |-> IF k \in DOMAIN b THEN b[k] ELSE a[k]]

\* a tax id that is not found attributed to the headquarters
identifyFilial_matriz(destCnpj) ==
  LET filial == getFilialByCnpj(destCnpj) IN
  IF filial = nullFilial
  THEN [codigo |-> getMatriz.codigo, cnpj |-> getMatriz.cnpj, uf |-> getMatriz.uf,
        tipo |-> getMatriz.tipo]
  ELSE [codigo |-> filial.codigo, cnpj |-> filial.cnpj, uf |-> filial.uf,
        tipo |-> filial.tipo]

identifyFilial(destCnpj) ==
  LET filial == getFilialByCnpj(destCnpj) IN
  IF filial = nullFilial
  THEN nullFilial
  ELSE [codigo |-> filial.codigo, cnpj |-> filial.cnpj, uf |-> filial.uf,
        tipo |-> filial.tipo]

\* the ProcessedNote built by addNote and by the callback of addNotes
newNote(id, filename, data, t) ==
  [id |-> id,
   filename |-> filename,
   data |-> data,
   processedAt |-> Date(t),
   launchInfo |-> [status |-> "pending"],
   filial |-> identifyFilial(data.dest.doc)]

\* a launched note rebuilt field by field, the unit left out
launched_unfiled(n, t, operatorName, text) ==
  [id |-> n.id,
   filename |-> n.filename,
   data |-> n.data,
   processedAt |-> n.processedAt,
   launchInfo |-> spread(n.launchInfo,
                         [status |-> "launched", launchedAt |-> Date(t),
                          launchedBy |-> operatorName, notes |-> text]),
   filial |-> nullFilial]

\* a note that is already launched returned as it is
launched_once(n, t, operatorName, text) ==
  IF n.launchInfo.status = "launched"
  THEN n
  ELSE [n EXCEPT !.launchInfo =
          spread(n.launchInfo,
                 [status |-> "launched", launchedAt |-> Date(t),
                  launchedBy |-> operatorName, notes |-> text])]

\* ...n.launchInfo, which spreads nothing when the note has no launchInfo
launchInfoOf(n) == IF "launchInfo" \in DOMAIN n THEN n.launchInfo ELSE [f \in {} |-> f]

\* the three map callbacks, applied to the note whose id matches
launched(n, t, operatorName, text) ==
  spread(n, [launchInfo |->
               spread(launchInfoOf(n),
                      [status |-> "launched", launchedAt |-> Date(t),
                       launchedBy |-> operatorName, notes |-> text])])

rejected(n, t, reason, operatorName) ==
  spread(n, [launchInfo |->
               spread(launchInfoOf(n),
                      [status |-> "rejected", rejectedAt |-> Date(t),
                       rejectedBy |-> operatorName, rejectionReason |-> reason])])

\* the status set over a spread of the old record, as the other two callbacks do
reset_spread(n) == [n EXCEPT !.launchInfo = spread(n.launchInfo, [status |-> "pending"])]

reset(n) == spread(n, [launchInfo |-> [status |-> "pending"]])

\* the callback applied to every note, whatever its id
matches_any(n, id) == TRUE

\* n.id === id ? ... : n
matches(n, id) == n.id = id

NoteIds(ns) == {ns[i].id : i \in 1..Len(ns)}

\* every store action returns undefined; what the write to the storage
\* throws is read from quota, not recorded here
Called(op, id) == [op |-> op, id |-> id, result |-> "void"]

RegistryIdle == UNCHANGED <<order, query, resolved, edit>>

\* useState initial values of LancamentoPage; the page is not mounted
PageClosed ==
  [open |-> FALSE, statusFilter |-> "pending", showRejectModal |-> FALSE,
   rejectReason |-> <<>>, launchNotes |-> <<>>]

\* the store is used from another page, or the launch page keeps its state
PageIdle == UNCHANGED page

\* the NF-e store writes nothing of the NFS-e store
NfseIdle == UNCHANGED <<nfseNotes, selectedNfseId>>

\* a store action writes no state of the upload page
UploadIdle == UNCHANGED <<files, isProcessing, run, dropped>>

\* an action that calls no set() of a store writes nothing to the storage
StorageIdle == UNCHANGED <<localStorage, quota>>

DateFields == {"launchedAt", "rejectedAt"}

\* JSON.stringify writes a Date as its ISO string and JSON.parse returns that
\* string; a value that is a string already stays one
toJSON(d) == IF d.kind = "Date" THEN [kind |-> "string", iso |-> d.ms] ELSE d

\* JSON.stringify leaves out the properties whose value is undefined
stringifiedInfo(info) ==
  [f \in {g \in DOMAIN info : g \in {"status"} \cup DateFields \/ info[g] # undefined} |->
     IF f \in DateFields THEN toJSON(info[f]) ELSE info[f]]

rehydratedNote(n) ==
  IF "launchInfo" \in DOMAIN n
  THEN [n EXCEPT !.processedAt = toJSON(@), !.launchInfo = stringifiedInfo(@)]
  ELSE [n EXCEPT !.processedAt = toJSON(@)]

rehydratedNfse(n) == [n EXCEPT !.processedAt = toJSON(@)]

\* what JSON.parse returns of the JSON.stringify of partialize(state): the
\* collection only
storedNotes(ns) == [i \in 1..Len(ns) |-> rehydratedNote(ns[i])]

storedNfse(ns) == [i \in 1..Len(ns) |-> rehydratedNfse(ns[i])]

\* a failed write leaving the item empty
setItem_torn(name, state) ==
  /\ localStorage' = IF quota = "exceeded"
                     THEN [localStorage EXCEPT ![name] = <<>>]
                     ELSE [localStorage EXCEPT ![name] = state]
  /\ UNCHANGED quota

\* the item written before the state is set
setItem_early(name, state) ==
  /\ localStorage' = localStorage
  /\ UNCHANGED quota

\* persist(): every set() of a store is followed by
\* storage.setItem(name, JSON.stringify({ state: partialize(get()) })), which
\* replaces the item, or throws and leaves it when the quota is exceeded
setItem(name, state) ==
  /\ localStorage' = IF quota = "exceeded"
                     THEN localStorage
                     ELSE [localStorage EXCEPT ![name] = state]
  /\ UNCHANGED quota

\* a call that maps or filters by id, with what it met: the statuses of the
\* notes of that id and whether that id was the selected one
Acted(op, id) ==
  spread(Called(op, id),
         [on |-> {launchInfoOf(notes[i]).status :
                    i \in {j \in 1..Len(notes) : notes[j].id = id /\
                                                   "launchInfo" \in DOMAIN notes[j]}},
          selected |-> selectedNoteId = id])

\* the new note put in front of the collection
addNote_prepend(filename, data) ==
  /\ Len(notes) + Len(nfseNotes) < MaxNotes
  /\ \E id \in GeneratedIds, t \in Times :
       /\ notes' = <<newNote(id, filename, data, t)>> \o notes
       /\ call' = spread(Called("addNote", id),
                         [entries |-> <<[filename |-> filename, data |-> data]>>])
  /\ UNCHANGED selectedNoteId
  /\ RegistryIdle
  /\ PageIdle
  /\ NfseIdle
  /\ UploadIdle
  /\ setItem("nfe-notes-storage", storedNotes(notes'))

addNote(filename, data) ==
  /\ Len(notes) + Len(nfseNotes) < MaxNotes
  /\ \E id \in GeneratedIds, t \in Times :
       /\ notes' = Append(notes, newNote(id, filename, data, t))
       /\ call' = spread(Called("addNote", id),
                         [entries |-> <<[filename |-> filename, data |-> data]>>])
  /\ UNCHANGED selectedNoteId
  /\ RegistryIdle
  /\ PageIdle
  /\ NfseIdle
  /\ UploadIdle
  /\ setItem("nfe-notes-storage", storedNotes(notes'))

\* the entries whose buyer tax id resolves to no unit left out of the batch
addNotes_resolved(notesToAdd) ==
  /\ Len(notes) + Len(nfseNotes) + Len(notesToAdd) <= MaxNotes
  /\ \E ids \in [1..Len(notesToAdd) -> GeneratedIds],
        ts \in [1..Len(notesToAdd) -> Times] :
       LET newNotes == [i \in 1..Len(notesToAdd) |->
                          newNote(ids[i], notesToAdd[i].filename, notesToAdd[i].data, ts[i])]
       IN notes' = notes \o SelectSeq(newNotes, LAMBDA n : n.filial # nullFilial)
  /\ call' = spread(Called("addNotes", null),
                    [count |-> Len(notesToAdd), entries |-> notesToAdd])
  /\ UNCHANGED selectedNoteId
  /\ RegistryIdle
  /\ PageIdle
  /\ NfseIdle
  /\ UploadIdle
  /\ setItem("nfe-notes-storage", storedNotes(notes'))

\* the new notes appended from the last entry to the first
addNotes_reversed(notesToAdd) ==
  /\ Len(notes) + Len(nfseNotes) + Len(notesToAdd) <= MaxNotes
  /\ \E ids \in [1..Len(notesToAdd) -> GeneratedIds],
        ts \in [1..Len(notesToAdd) -> Times] :
       LET newNotes == [i \in 1..Len(notesToAdd) |->
                          newNote(ids[i], notesToAdd[i].filename, notesToAdd[i].data, ts[i])]
       IN notes' = notes \o [i \in 1..Len(newNotes) |-> newNotes[Len(newNotes) + 1 - i]]
  /\ call' = spread(Called("addNotes", null),
                    [count |-> Len(notesToAdd), entries |-> notesToAdd])
  /\ UNCHANGED selectedNoteId
  /\ RegistryIdle
  /\ PageIdle
  /\ NfseIdle
  /\ UploadIdle
  /\ setItem("nfe-notes-storage", storedNotes(notes'))

addNotes(notesToAdd) ==
  /\ Len(notes) + Len(nfseNotes) + Len(notesToAdd) <= MaxNotes
  /\ \E ids \in [1..Len(notesToAdd) -> GeneratedIds],
        ts \in [1..Len(notesToAdd) -> Times] :
       LET newNotes == [i \in 1..Len(notesToAdd) |->
                          newNote(ids[i], notesToAdd[i].filename, notesToAdd[i].data, ts[i])]
       IN notes' = notes \o newNotes
  /\ call' = spread(Called("addNotes", null),
                    [count |-> Len(notesToAdd), entries |-> notesToAdd])
  /\ UNCHANGED selectedNoteId
  /\ RegistryIdle
  /\ PageIdle
  /\ NfseIdle
  /\ UploadIdle
  /\ setItem("nfe-notes-storage", storedNotes(notes'))

\* the notes filtered and the selection left as it was
removeNote_keep(id) ==
  /\ notes' = SelectSeq(notes, LAMBDA n : n.id # id)
  /\ selectedNoteId' = selectedNoteId
  /\ call' = Acted("removeNote", id)
  /\ RegistryIdle
  /\ PageIdle
  /\ NfseIdle
  /\ UploadIdle
  /\ setItem("nfe-notes-storage", storedNotes(notes'))

removeNote(id) ==
  /\ notes' = SelectSeq(notes, LAMBDA n : n.id # id)
  /\ selectedNoteId' = IF selectedNoteId = id THEN null ELSE selectedNoteId
  /\ call' = Acted("removeNote", id)
  /\ RegistryIdle
  /\ PageIdle
  /\ NfseIdle
  /\ UploadIdle
  /\ setItem("nfe-notes-storage", storedNotes(notes'))

\* set({ notes: [] }): the selection left as it was
clearNotes_selected ==
  /\ notes' = <<>>
  /\ UNCHANGED selectedNoteId
  /\ call' = Called("clearNotes", null)
  /\ RegistryIdle
  /\ PageIdle
  /\ NfseIdle
  /\ UploadIdle
  /\ setItem("nfe-notes-storage", storedNotes(notes'))

clearNotes ==
  /\ notes' = <<>>
  /\ selectedNoteId' = null
  /\ call' = Called("clearNotes", null)
  /\ RegistryIdle
  /\ PageIdle
  /\ NfseIdle
  /\ UploadIdle
  /\ setItem("nfe-notes-storage", storedNotes(notes'))

\* the pages call selectNote with the id of a listed note only
selectNote(id) ==
  /\ id \in NoteIds(notes)
  /\ selectedNoteId' = id
  /\ call' = Called("selectNote", id)
  /\ UNCHANGED notes
  /\ RegistryIdle
  /\ PageIdle
  /\ NfseIdle
  /\ UploadIdle
  /\ setItem("nfe-notes-storage", storedNotes(notes'))

markAsLaunched(id, operatorName, text) ==
  /\ \E t \in Times :
       notes' = [i \in 1..Len(notes) |->
                   IF matches(notes[i], id)
                   THEN launched(notes[i], t, operatorName, text)
                   ELSE notes[i]]
  /\ call' = Acted("markAsLaunched", id)
  /\ UNCHANGED selectedNoteId
  /\ RegistryIdle
  /\ PageIdle
  /\ NfseIdle
  /\ UploadIdle
  /\ setItem("nfe-notes-storage", storedNotes(notes'))

markAsRejected(id, reason, operatorName) ==
  /\ \E t \in Times :
       notes' = [i \in 1..Len(notes) |->
                   IF matches(notes[i], id)
                   THEN rejected(notes[i], t, reason, operatorName)
                   ELSE notes[i]]
  /\ call' = Acted("markAsRejected", id)
  /\ UNCHANGED selectedNoteId
  /\ RegistryIdle
  /\ PageIdle
  /\ NfseIdle
  /\ UploadIdle
  /\ setItem("nfe-notes-storage", storedNotes(notes'))

\* the reset that also drops the selection
resetLaunchStatus_unselect(id) ==
  /\ notes' = [i \in 1..Len(notes) |->
                IF matches(notes[i], id) THEN reset(notes[i]) ELSE notes[i]]
  /\ call' = Acted("resetLaunchStatus", id)
  /\ selectedNoteId' = null
  /\ RegistryIdle
  /\ PageIdle
  /\ NfseIdle
  /\ UploadIdle
  /\ setItem("nfe-notes-storage", storedNotes(notes'))

resetLaunchStatus(id) ==
  /\ notes' = [i \in 1..Len(notes) |->
                IF matches(notes[i], id) THEN reset(notes[i]) ELSE notes[i]]
  /\ call' = Acted("resetLaunchStatus", id)
  /\ UNCHANGED selectedNoteId
  /\ RegistryIdle
  /\ PageIdle
  /\ NfseIdle
  /\ UploadIdle
  /\ setItem("nfe-notes-storage", storedNotes(notes'))

----------------------------------------------------------------------------
(* lib/store.ts: the getters of the NF-e ledger *)

\* the notes without launchInfo left out
getPendingNotes_strict ==
  SelectSeq(notes, LAMBDA n : "launchInfo" \in DOMAIN n /\ n.launchInfo.status = "pending")

\* n.launchInfo?.status === "pending" || !n.launchInfo
getPendingNotes ==
  SelectSeq(notes, LAMBDA n : "launchInfo" \notin DOMAIN n \/ n.launchInfo.status = "pending")

getLaunchedNotes ==
  SelectSeq(notes, LAMBDA n : "launchInfo" \in DOMAIN n /\ n.launchInfo.status = "launched")

\* the filter on the rejection timestamp instead of the status
getRejectedNotes_stamped ==
  SelectSeq(notes, LAMBDA n : "launchInfo" \in DOMAIN n /\ "rejectedAt" \in DOMAIN n.launchInfo)

getRejectedNotes ==
  SelectSeq(notes, LAMBDA n : "launchInfo" \in DOMAIN n /\ n.launchInfo.status = "rejected")

----------------------------------------------------------------------------
(* lib/store.ts: the NFS-e store (useNfseStore) *)

\* NfseExtractResponse is opaque to the store
NfsePayloads == {[received |-> TRUE, count |-> 1]}

\* the ProcessedNfse built by addNfse and by the callback of addNfseNotes
newNfse(id, filename, data, t) ==
  [id |-> id, filename |-> filename, data |-> data, processedAt |-> Date(t)]

NfseIds(ns) == {ns[i].id : i \in 1..Len(ns)}

NfeIdle == UNCHANGED <<notes, selectedNoteId>>

addNfse(filename, data) ==
  /\ Len(notes) + Len(nfseNotes) < MaxNotes
  /\ \E id \in GeneratedIds, t \in Times :
       /\ nfseNotes' = Append(nfseNotes, newNfse(id, filename, data, t))
       /\ call' = Called("addNfse", id)
  /\ UNCHANGED selectedNfseId
  /\ NfeIdle
  /\ RegistryIdle
  /\ PageIdle
  /\ UploadIdle
  /\ setItem("nfse-notes-storage", storedNfse(nfseNotes'))

addNfseNotes(notesToAdd) ==
  /\ Len(notes) + Len(nfseNotes) + Len(notesToAdd) <= MaxNotes
  /\ \E ids \in [1..Len(notesToAdd) -> GeneratedIds],
        ts \in [1..Len(notesToAdd) -> Times] :
       LET newNotes == [i \in 1..Len(notesToAdd) |->
                          newNfse(ids[i], notesToAdd[i].filename, notesToAdd[i].data, ts[i])]
       IN nfseNotes' = nfseNotes \o newNotes
  /\ call' = Called("addNfseNotes", null)
  /\ UNCHANGED selectedNfseId
  /\ NfeIdle
  /\ RegistryIdle
  /\ PageIdle
  /\ UploadIdle
  /\ setItem("nfse-notes-storage", storedNfse(nfseNotes'))

\* the selection nulled whatever id was removed
removeNfse_unselect(id) ==
  /\ nfseNotes' = SelectSeq(nfseNotes, LAMBDA n : n.id # id)
  /\ selectedNfseId' = null
  /\ call' = [op |-> "removeNfse", id |-> id, result |-> "void",
              selected |-> selectedNfseId = id]
  /\ NfeIdle
  /\ RegistryIdle
  /\ PageIdle
  /\ UploadIdle
  /\ setItem("nfse-notes-storage", storedNfse(nfseNotes'))

removeNfse(id) ==
  /\ nfseNotes' = SelectSeq(nfseNotes, LAMBDA n : n.id # id)
  /\ selectedNfseId' = IF selectedNfseId = id THEN null ELSE selectedNfseId
  /\ call' = [op |-> "removeNfse", id |-> id, result |-> "void",
              selected |-> selectedNfseId = id]
  /\ NfeIdle
  /\ RegistryIdle
  /\ PageIdle
  /\ UploadIdle
  /\ setItem("nfse-notes-storage", storedNfse(nfseNotes'))

clearNfseNotes ==
  /\ nfseNotes' = <<>>
  /\ selectedNfseId' = null
  /\ call' = Called("clearNfseNotes", null)
  /\ NfeIdle
  /\ RegistryIdle
  /\ PageIdle
  /\ UploadIdle
  /\ setItem("nfse-notes-storage", storedNfse(nfseNotes'))

\* the NFS-e page calls selectNfse with the id of a listed note only
selectNfse(id) ==
  /\ id \in NfseIds(nfseNotes)
  /\ selectedNfseId' = id
  /\ call' = Called("selectNfse", id)
  /\ UNCHANGED nfseNotes
  /\ NfeIdle
  /\ RegistryIdle
  /\ PageIdle
  /\ UploadIdle
  /\ setItem("nfse-notes-storage", storedNfse(nfseNotes'))

\* the entries a caller hands to addNotes
Entries == {[filename |-> f, data |-> Payloads[p]] : f \in Filenames, p \in 1..Len(Payloads)}

Batches == UNION {[1..n -> Entries] : n \in 0..MaxNotes}

Init ==
  /\ notes = <<>>
  /\ selectedNoteId = null
  /\ call = Called("create", null)
  /\ order = <<1, 1>>
  /\ query = null
  /\ resolved = nullFilial
  /\ nfseNotes = <<>>
  /\ selectedNfseId = null
  /\ files = <<>>
  /\ isProcessing = FALSE
  /\ run = [pc |-> "idle"]
  /\ dropped = {}
  /\ localStorage = [name \in {"nfe-notes-storage", "nfse-notes-storage"} |-> <<>>]
  /\ quota = "free"
  /\ edit = NoEdit
  /\ page = PageClosed

Next ==
  \/ \E f \in Filenames, p \in 1..Len(Payloads) : addNote(f, Payloads[p])
  \/ \E b \in Batches : addNotes(b)
  \/ \E id \in GeneratedIds : removeNote(id)
  \/ clearNotes
  \/ \E id \in GeneratedIds : selectNote(id)
  \/ \E id \in GeneratedIds, o \in Operators, x \in NoteTexts : markAsLaunched(id, o, x)
  \/ \E id \in GeneratedIds, r \in Reasons, o \in Operators : markAsRejected(id, r, o)
  \/ \E id \in GeneratedIds : resetLaunchStatus(id)

Spec == Init /\ [][Next]_vars

----------------------------------------------------------------------------
(* Ingestion on its own, with buyer tax ids of every kind *)

\* dest.doc as the extraction service can return it: null, absent (dest: {}),
\* empty, not a tax id, a tax id root only, a tax id of no unit, the shared tax
\* id punctuated, the tax id of one unit
IngestDocs ==
  {null, undefined, <<>>, <<"x", "1">>,
   <<"1","1","8","5","8","5","7","0">>,
   <<"0","0","0","0","0","0","0","0","0","0","0","0","0","0">>,
   formatCnpj(CNPJ_MATRIZ), FILIAIS[2].cnpj}

IngestEntries ==
  {[filename |-> f, data |-> [dest |-> [doc |-> d], totals |-> [vNF |-> 10]]] :
     f \in Filenames, d \in IngestDocs}

IngestBatches == UNION {[1..n -> IngestEntries] : n \in 0..MaxNotes}

NextIngest ==
  \/ \E e \in IngestEntries : addNote(e.filename, e.data)
  \/ \E b \in IngestBatches : addNotes(b)
  \/ \E id \in GeneratedIds : removeNote(id)
  \/ clearNotes

SpecIngest == Init /\ [][NextIngest]_vars

----------------------------------------------------------------------------
(* A session of both stores with restarts: persist() writes the partialized  *)
(* state as JSON at every set() and restores it when the store is created.  *)

\* the selections restored with the collections
restart_selected ==
  /\ notes' = localStorage["nfe-notes-storage"]
  /\ selectedNoteId' = selectedNoteId
  /\ nfseNotes' = localStorage["nfse-notes-storage"]
  /\ selectedNfseId' = selectedNfseId
  /\ call' = spread(Called("restart", null),
                   [unselected |-> <<selectedNoteId, selectedNfseId>>])
  /\ files' = <<>>
  /\ isProcessing' = FALSE
  /\ run' = [pc |-> "idle"]
  /\ UNCHANGED dropped
  /\ page' = PageClosed
  /\ RegistryIdle
  /\ StorageIdle

\* the page is loaded again: both stores are created with their initial state
\* and merged with the item partialize had stored (the collection only), which
\* is written back as it was read; the state of the upload page is new
restart ==
  /\ notes' = localStorage["nfe-notes-storage"]
  /\ selectedNoteId' = null
  /\ nfseNotes' = localStorage["nfse-notes-storage"]
  /\ selectedNfseId' = null
  /\ call' = spread(Called("restart", null),
                   [unselected |-> <<selectedNoteId, selectedNfseId>>])
  /\ files' = <<>>
  /\ isProcessing' = FALSE
  /\ run' = [pc |-> "idle"]
  /\ UNCHANGED dropped
  /\ page' = PageClosed
  /\ RegistryIdle
  /\ StorageIdle

SessionEntries == {[filename |-> f, data |-> Payloads[3]] : f \in Filenames}

SessionBatches == UNION {[1..n -> SessionEntries] : n \in 0..MaxNotes}

NfseEntries == {[filename |-> f, data |-> d] : f \in Filenames, d \in NfsePayloads}

NfseBatches == UNION {[1..n -> NfseEntries] : n \in 0..MaxNotes}

NextSession ==
  \/ \E e \in SessionEntries : addNote(e.filename, e.data)
  \/ \E b \in SessionBatches : addNotes(b)
  \/ \E id \in GeneratedIds : removeNote(id)
  \/ clearNotes
  \/ \E id \in GeneratedIds : selectNote(id)
  \/ \E id \in GeneratedIds : markAsLaunched(id, undefined, undefined)
  \/ \E id \in GeneratedIds : markAsRejected(id, <<"n", "o">>, undefined)
  \/ \E id \in GeneratedIds : resetLaunchStatus(id)
  \/ \E e \in NfseEntries : addNfse(e.filename, e.data)
  \/ \E b \in NfseBatches : addNfseNotes(b)
  \/ \E id \in GeneratedIds : removeNfse(id)
  \/ clearNfseNotes
  \/ \E id \in GeneratedIds : selectNfse(id)
  \/ restart

SpecSession == Init /\ [][NextSession]_vars

----------------------------------------------------------------------------
(* A session in which the storage of the origin fills up and is freed: the   *)
(* writes of persist() succeed or throw.                                     *)

\* the origin's quota is used up (by this or another page of the origin)
storageFills ==
  /\ quota = "free"
  /\ quota' = "exceeded"
  /\ call' = Called("storageFills", null)
  /\ UNCHANGED <<notes, selectedNoteId, localStorage>>
  /\ RegistryIdle
  /\ PageIdle
  /\ NfseIdle
  /\ UploadIdle

storageFrees ==
  /\ quota = "exceeded"
  /\ quota' = "free"
  /\ call' = Called("storageFrees", null)
  /\ UNCHANGED <<notes, selectedNoteId, localStorage>>
  /\ RegistryIdle
  /\ PageIdle
  /\ NfseIdle
  /\ UploadIdle

NextDurable ==
  \/ \E e \in SessionEntries : addNote(e.filename, e.data)
  \/ \E id \in GeneratedIds : removeNote(id)
  \/ clearNotes
  \/ \E id \in GeneratedIds : markAsLaunched(id, undefined, undefined)
  \/ \E id \in GeneratedIds : markAsRejected(id, <<"n", "o">>, undefined)
  \/ \E id \in GeneratedIds : resetLaunchStatus(id)
  \/ restart
  \/ storageFills
  \/ storageFrees

SpecDurable == Init /\ [][NextDurable]_vars

----------------------------------------------------------------------------
(* The registry on its own: the index built from the catalog with two of     *)
(* its entries exchanged, and lookups of tax ids in every punctuation.       *)

Orders == {o \in (1..Len(FILIAIS)) \X (1..Len(FILIAIS)) : o[1] <= o[2]}

exchange(catalog, o) ==
  [k \in 1..Len(catalog) |->
     IF k = o[1] THEN catalog[o[2]] ELSE IF k = o[2] THEN catalog[o[1]] ELSE catalog[k]]

CatalogDigits == {FILIAIS[i].cnpj : i \in 1..Len(FILIAIS)}

\* a tax id written with blanks around it and between its halves
spaced(digits) ==
  <<" ">> \o SubSeq(digits, 1, Len(digits) \div 2) \o <<" ">>
  \o SubSeq(digits, (Len(digits) \div 2) + 1, Len(digits)) \o <<" ">>

QueryDigits ==
  CatalogDigits \cup
    {<<"0","0","0","0","0","0","0","0","0","0","0","0","0","0">>,
     <<"1","1","8","5","8","5","7","0">>,
     <<"1","1","8","5","8","5","7","0","0","0","0","1","3","3","0">>}

\* the tax ids that are also looked up punctuated and with blanks
Punctuated ==
  {CNPJ_MATRIZ, FILIAIS[2].cnpj, FILIAIS[Len(FILIAIS)].cnpj,
   <<"0","0","0","0","0","0","0","0","0","0","0","0","0","0">>}

Queries ==
  {null, undefined, <<>>, <<".", "/", "-">>}
    \cup QueryDigits
    \cup {formatCnpj(d) : d \in Punctuated}
    \cup {spaced(d) : d \in Punctuated}

InitRegistry ==
  /\ notes = <<>>
  /\ selectedNoteId = null
  /\ call = Called("create", null)
  /\ order \in Orders
  /\ query = null
  /\ resolved = nullFilial
  /\ nfseNotes = <<>>
  /\ selectedNfseId = null
  /\ files = <<>>
  /\ isProcessing = FALSE
  /\ run = [pc |-> "idle"]
  /\ dropped = {}
  /\ localStorage = [name \in {"nfe-notes-storage", "nfse-notes-storage"} |-> <<>>]
  /\ quota = "free"
  /\ edit = NoEdit
  /\ page = PageClosed

\* a lookup in the index filled from the catalog in the order of this run
resolve(index, cnpjDest) ==
  /\ query' = cnpjDest
  /\ resolved' = lookup(index, cnpjDest)
  /\ UNCHANGED <<notes, selectedNoteId, call, order, edit, page>>
  /\ NfseIdle
  /\ UploadIdle
  /\ StorageIdle

NextRegistry ==
  \E index \in {buildIndex(exchange(FILIAIS, order))} :
    \E q \in Queries : resolve(index, q)

SpecRegistry == InitRegistry /\ [][NextRegistry]_vars

----------------------------------------------------------------------------
(* The module loaded with a catalog that differs from FILIAIS in one entry:  *)
(* an entry of another type, or an entry left out.                           *)

Edits ==
  {NoEdit}
    \cup {[kind |-> "retype", at |-> i, tipo |-> t] :
            i \in 1..Len(FILIAIS), t \in {"matriz", "filial"}}
    \cup {[kind |-> "remove", at |-> i, tipo |-> "none"] : i \in 1..Len(FILIAIS)}

edited(catalog, e) ==
  IF e.kind = "retype"
  THEN [catalog EXCEPT ![e.at].tipo = e.tipo]
  ELSE IF e.kind = "remove"
  THEN [k \in 1..(Len(catalog) - 1) |-> IF k < e.at THEN catalog[k] ELSE catalog[k + 1]]
  ELSE catalog

\* the module lib/filiais.ts evaluated: the index is filled and nothing throws
InitCatalog ==
  /\ notes = <<>>
  /\ selectedNoteId = null
  /\ call = Called("load", null)
  /\ order = <<1, 1>>
  /\ query = null
  /\ resolved = nullFilial
  /\ nfseNotes = <<>>
  /\ selectedNfseId = null
  /\ files = <<>>
  /\ isProcessing = FALSE
  /\ run = [pc |-> "idle"]
  /\ dropped = {}
  /\ localStorage = [name \in {"nfe-notes-storage", "nfse-notes-storage"} |-> <<>>]
  /\ quota = "free"
  /\ edit \in Edits
  /\ page = PageClosed

\* a call of getMatriz() on the catalog the module was loaded with
matriz(catalog) ==
  /\ call' = [op |-> "getMatriz", id |-> null, result |-> "void",
              returned |-> find(catalog)]
  /\ UNCHANGED <<notes, selectedNoteId>>
  /\ RegistryIdle
  /\ PageIdle
  /\ NfseIdle
  /\ UploadIdle
  /\ StorageIdle

NextCatalog ==
  \E catalog \in {edited(FILIAIS, edit)} :
    \/ matriz(catalog)
    \/ \E q \in {null, CNPJ_MATRIZ, FILIAIS[2].cnpj} : resolve(buildIndex(catalog), q)

SpecCatalog == InitCatalog /\ [][NextCatalog]_vars

----------------------------------------------------------------------------
(* The tax-id normalizer on its own: normalizeCnpj and formatCnpj called     *)
(* with null, undefined, every short string and tax ids in every writing.    *)

Characters == {"1", "7", ".", "/", "a"}

Strings == UNION {[1..n -> Characters] : n \in 0..MaxLen}

TaxIdInputs ==
  {null, undefined}
    \cup Strings
    \cup Queries
    \cup {<<"a">> \o d \o <<"-">> : d \in Punctuated}

normalize(cnpj) ==
  /\ call' = [op |-> "normalizeCnpj", id |-> null, result |-> "void",
              arg |-> cnpj,
              returned |-> normalizeCnpj(cnpj),
              again |-> normalizeCnpj(normalizeCnpj(cnpj))]
  /\ UNCHANGED <<notes, selectedNoteId>>
  /\ RegistryIdle
  /\ PageIdle
  /\ NfseIdle
  /\ UploadIdle
  /\ StorageIdle

format(cnpj) ==
  /\ call' = [op |-> "formatCnpj", id |-> null, result |-> "void",
              arg |-> cnpj,
              returned |-> formatCnpj(cnpj),
              normalized |-> normalizeCnpj(formatCnpj(cnpj)),
              again |-> formatCnpj(formatCnpj(cnpj))]
  /\ UNCHANGED <<notes, selectedNoteId>>
  /\ RegistryIdle
  /\ PageIdle
  /\ NfseIdle
  /\ UploadIdle
  /\ StorageIdle

NextTaxId ==
  \/ \E cnpj \in TaxIdInputs : normalize(cnpj)
  \/ \E cnpj \in TaxIdInputs : format(cnpj)

SpecTaxId == Init /\ [][NextTaxId]_vars

----------------------------------------------------------------------------
(* app/upload/page.tsx: the upload page and its processFiles run.  An async  *)
(* function runs without interruption from one await to the next: a step of  *)
(* the run is the code from the click, or from the settling of the awaited   *)
(* extractFile, up to the next await or the end of the function.             *)

\* the File objects the operator can hand to the page, valid by isValidFile
FileName(k) == <<"f", <<"1", "2", "3", "4", "5", "6", "7", "8", "9">>[k]>>

Files == {FileName(k) : k \in 1..MaxFiles}

\* files.filter((f) => f.status === "pending").length
pendingCount == Cardinality({i \in 1..Len(files) : files[i].status = "pending"})

\* prev.map((f, idx) => idx === i ? { ...f, ...fields } : f)
setStatus(fs, i, fields) ==
  [idx \in 1..Len(fs) |-> IF idx = i THEN spread(fs[idx], fields) ELSE fs[idx]]

\* the first index from `from` on at which the files of the closure are
\* pending, 0 when there is none: the entries the loop does not `continue` over
nextPending(closure, from) ==
  LET pending == {j \in from..Len(closure) : closure[j].status = "pending"} IN
  IF pending = {} THEN 0 ELSE CHOOSE j \in pending : \A k \in pending : j <= k

\* the for loop from index `from` of the closure, up to the await of the next
\* pending file, which is marked processing, or to setIsProcessing(false)
\* after the last one; fs is the list after the updates queued so far
loop(fs, closure, from) ==
  LET i == nextPending(closure, from) IN
  IF i = 0
  THEN /\ files' = fs
       /\ isProcessing' = FALSE
       /\ run' = [pc |-> "idle"]
  ELSE /\ files' = setStatus(fs, i, [status |-> "processing"])
       /\ isProcessing' = TRUE
       /\ run' = [pc |-> "await", i |-> i, files |-> closure]

\* handleDrop and handleFileInput: the valid files appended, pending
handleDrop(droppedFiles) ==
  /\ Len(droppedFiles) > 0
  /\ \A k \in 1..Len(droppedFiles) : droppedFiles[k] \in Files \ dropped
  /\ \A k, l \in 1..Len(droppedFiles) : k # l => droppedFiles[k] # droppedFiles[l]
  /\ files' = files \o [k \in 1..Len(droppedFiles) |->
                          [file |-> droppedFiles[k], status |-> "pending"]]
  /\ dropped' = dropped \cup {droppedFiles[k] : k \in 1..Len(droppedFiles)}
  /\ call' = Called("handleDrop", null)
  /\ UNCHANGED <<notes, selectedNoteId, isProcessing, run>>
  /\ RegistryIdle
  /\ PageIdle
  /\ NfseIdle
  /\ StorageIdle

\* the remove button is rendered for the entries that are pending
removeFile(index) ==
  /\ index \in 1..Len(files)
  /\ files[index].status = "pending"
  /\ files' = [i \in 1..(Len(files) - 1) |->
                 IF i < index THEN files[i] ELSE files[i + 1]]
  /\ call' = Called("removeFile", null)
  /\ UNCHANGED <<notes, selectedNoteId, isProcessing, run, dropped>>
  /\ RegistryIdle
  /\ PageIdle
  /\ NfseIdle
  /\ StorageIdle

\* the button is disabled while isProcessing
clearAll ==
  /\ files # <<>>
  /\ ~isProcessing
  /\ files' = <<>>
  /\ call' = Called("clearAll", null)
  /\ UNCHANGED <<notes, selectedNoteId, isProcessing, run, dropped>>
  /\ RegistryIdle
  /\ PageIdle
  /\ NfseIdle
  /\ StorageIdle

\* the button is rendered when notes.length > 0; the operator confirms;
\* setFiles([]) is not reached when the write of clearNotes() throws
handleClearAllNotes ==
  /\ Len(notes) > 0
  /\ notes' = <<>>
  /\ selectedNoteId' = null
  /\ files' = IF quota = "exceeded" THEN files ELSE <<>>
  /\ call' = Called("clearNotes", null)
  /\ UNCHANGED <<isProcessing, run, dropped>>
  /\ RegistryIdle
  /\ PageIdle
  /\ NfseIdle
  /\ setItem("nfe-notes-storage", storedNotes(notes'))

\* the click on the process button, up to the first await
processFiles ==
  /\ ~isProcessing
  /\ pendingCount > 0
  /\ loop(files, files, 1)
  /\ call' = Called("processFiles", null)
  /\ UNCHANGED <<notes, selectedNoteId, dropped>>
  /\ RegistryIdle
  /\ PageIdle
  /\ NfseIdle
  /\ StorageIdle

\* what the run is waiting for: the file of the closure, and the outcome
Settled(outcome, count) ==
  [op |-> "extractFile", id |-> null, result |-> outcome,
   file |-> run.files[run.i].file, at |-> run.i, count |-> count]

\* extractFile(files[i].file) returns count results (one for an XML file, any
\* number for a ZIP): each is added to the store under the name of the file,
\* the entry at i is marked success, and the loop goes on; when the write of
\* the first addNote throws, the catch block marks the entry as error instead
extractReturned(count) ==
  /\ run.pc = "await"
  /\ LET thrown == quota = "exceeded" /\ count > 0
         added == IF thrown THEN 1 ELSE count
     IN /\ \E ids \in [1..added -> GeneratedIds], ts \in [1..added -> Times] :
             notes' = notes \o [k \in 1..added |->
                                  newNote(ids[k], run.files[run.i].file, Payloads[3], ts[k])]
        /\ loop(setStatus(files, run.i,
                          IF thrown
                          THEN [status |-> "error", error |-> <<"Q">>]
                          ELSE [status |-> "success",
                                result |-> IF count = 0 THEN nullFilial
                                           ELSE [filename |-> run.files[run.i].file],
                                notesCount |-> count]),
                run.files, run.i + 1)
  /\ call' = Settled("returned", count)
  /\ UNCHANGED <<selectedNoteId, dropped>>
  /\ RegistryIdle
  /\ PageIdle
  /\ NfseIdle
  /\ setItem("nfe-notes-storage", storedNotes(notes'))

\* the catch block left out: a rejected extraction ends the run where it is
extractThrown_uncaught ==
  /\ run.pc = "await"
  /\ files' = files
  /\ isProcessing' = isProcessing
  /\ run' = [pc |-> "idle"]
  /\ call' = Settled("thrown", 0)
  /\ UNCHANGED <<notes, selectedNoteId, dropped>>
  /\ RegistryIdle
  /\ PageIdle
  /\ NfseIdle
  /\ StorageIdle

\* extractFile(files[i].file) throws: the catch block marks the entry at i as
\* error, and the loop goes on
extractThrown ==
  /\ run.pc = "await"
  /\ loop(setStatus(files, run.i, [status |-> "error", error |-> <<"E">>]),
          run.files, run.i + 1)
  /\ call' = Settled("thrown", 0)
  /\ UNCHANGED <<notes, selectedNoteId, dropped>>
  /\ RegistryIdle
  /\ PageIdle
  /\ NfseIdle
  /\ StorageIdle

\* the files dropped or chosen at once, in any order
Drops ==
  {d \in UNION {[1..n -> Files] : n \in 1..2} :
     \A k, l \in 1..Len(d) : k # l => d[k] # d[l]}

NextUpload ==
  \/ \E d \in Drops : handleDrop(d)
  \/ \E index \in 1..MaxFiles : removeFile(index)
  \/ clearAll
  \/ handleClearAllNotes
  \/ processFiles
  \/ \E count \in 0..MaxResults : extractReturned(count)
  \/ extractThrown

SpecUpload == Init /\ [][NextUpload]_vars

----------------------------------------------------------------------------
(* The upload page with a list that is edited between the runs only, and      *)
(* an extractFile that settles: the promise a run awaits is fulfilled or       *)
(* rejected, and the event loop then runs the continuation.                    *)

\* the awaited extractFile settles
settle ==
  \/ \E count \in 0..MaxResults : extractReturned(count)
  \/ extractThrown

NextRun ==
  \/ \E d \in Drops : ~isProcessing /\ handleDrop(d)
  \/ \E index \in 1..MaxFiles : ~isProcessing /\ removeFile(index)
  \/ clearAll
  \/ ~isProcessing /\ handleClearAllNotes
  \/ processFiles
  \/ settle

SpecRun == Init /\ [][NextRun]_vars /\ WF_vars(settle)

----------------------------------------------------------------------------
(* lib/store.ts getFilialStats and app/page.tsx: the dashboard *)

\* note.data.totals?.vNF || 0
vNF(note) == IF "vNF" \in DOMAIN note.data.totals THEN note.data.totals.vNF ELSE 0

\* the callback with the value of a note added to a new group only
tally_count(stats, note) ==
  IF note.filial = nullFilial
  THEN stats
  ELSE LET codigo == note.filial.codigo IN
       IF MapHas(stats, codigo)
       THEN [i \in 1..Len(stats) |->
               IF stats[i].key = codigo
               THEN [key |-> codigo,
                     value |-> [stats[i].value EXCEPT !.count = @ + 1]]
               ELSE stats[i]]
       ELSE Append(stats, [key |-> codigo,
                           value |-> [filial |-> note.filial, count |-> 1,
                                      valor |-> vNF(note)]])

\* the callback of notes.forEach in getFilialStats, on the Map stats
tally(stats, note) ==
  IF note.filial = nullFilial
  THEN stats
  ELSE LET codigo == note.filial.codigo
           valor == vNF(note)
       IN IF MapHas(stats, codigo)
          THEN [i \in 1..Len(stats) |->
                  IF stats[i].key = codigo
                  THEN [key |-> codigo,
                        value |-> [stats[i].value EXCEPT !.count = @ + 1,
                                                         !.valor = @ + valor]]
                  ELSE stats[i]]
          ELSE Append(stats, [key |-> codigo,
                              value |-> [filial |-> note.filial, count |-> 1,
                                         valor |-> valor]])

RECURSIVE forEachTally(_, _)
forEachTally(ns, k) == IF k = 0 THEN <<>> ELSE tally(forEachTally(ns, k - 1), ns[k])

getFilialStats == forEachTally(notes, Len(notes))

\* note.data.emit?.doc || "": the payloads of this model carry no emit
fornecedor(note) == IF "emit" \in DOMAIN note.data THEN note.data.emit.doc ELSE <<>>

\* the callback of launchedNotes.forEach in DashboardPage, on filialStatsMap
tallyLaunched(stats, note) ==
  IF note.filial = nullFilial
  THEN stats
  ELSE LET codigo == note.filial.codigo
           valor == vNF(note)
           seen == IF fornecedor(note) # <<>> THEN {fornecedor(note)} ELSE {}
       IN IF MapHas(stats, codigo)
          THEN [i \in 1..Len(stats) |->
                  IF stats[i].key = codigo
                  THEN [key |-> codigo,
                        value |-> [stats[i].value EXCEPT !.count = @ + 1,
                                                         !.valor = @ + valor,
                                                         !.fornecedores = @ \cup seen]]
                  ELSE stats[i]]
          ELSE Append(stats, [key |-> codigo,
                              value |-> [filial |-> note.filial, count |-> 1,
                                         valor |-> valor, fornecedores |-> seen]])

RECURSIVE forEachLaunched(_, _)
forEachLaunched(ns, k) ==
  IF k = 0 THEN <<>> ELSE tallyLaunched(forEachLaunched(ns, k - 1), ns[k])

filialStatsMap == forEachLaunched(getLaunchedNotes, Len(getLaunchedNotes))

\* Math.round(x) for x = num / den >= 0: the integer nearest to x, halves up
round(num, den) == (2 * num + den) \div (2 * den)

\* the share of the documents that are not pending
progressPercentage_processed ==
  IF Len(notes) > 0
  THEN round((Len(getLaunchedNotes) + Len(getRejectedNotes)) * 100, Len(notes))
  ELSE 0

\* notes.length > 0 ? Math.round((launchedNotes.length / notes.length) * 100) : 0
progressPercentage ==
  IF Len(notes) > 0 THEN round(Len(getLaunchedNotes) * 100, Len(notes)) ELSE 0

\* one rendering of the dashboard: what it computes from the store
DashboardPage ==
  /\ call' = [op |-> "DashboardPage", id |-> null, result |-> "void",
              pending |-> Len(getPendingNotes),
              launched |-> Len(getLaunchedNotes),
              rejected |-> Len(getRejectedNotes),
              progressPercentage |-> progressPercentage,
              filialStatsMap |-> filialStatsMap,
              getFilialStats |-> getFilialStats]
  /\ UNCHANGED <<notes, selectedNoteId>>
  /\ RegistryIdle
  /\ PageIdle
  /\ NfseIdle
  /\ UploadIdle
  /\ StorageIdle

NextStats ==
  \/ \E p \in 1..Len(Payloads), f \in Filenames : addNote(f, Payloads[p])
  \/ \E id \in GeneratedIds : removeNote(id)
  \/ \E id \in GeneratedIds : markAsLaunched(id, undefined, undefined)
  \/ \E id \in GeneratedIds : markAsRejected(id, <<"n", "o">>, undefined)
  \/ DashboardPage

SpecStats == Init /\ [][NextStats]_vars

\* the ids of the documents of a collection taken as it is
DocId(k) == <<"d", <<"1", "2", "3", "4", "5", "6", "7", "8", "9">>[k]>>

\* a document in each status, as the store actions leave it
Document(k, st) ==
  LET n == newNote(DocId(k), <<"n", ".", "x", "m", "l">>, Payloads[3], 0) IN
  IF st = "launched" THEN launched(n, 0, undefined, undefined)
  ELSE IF st = "rejected" THEN rejected(n, 0, <<"n", "o">>, undefined)
  ELSE n

\* the dashboard opened on a ledger of up to MaxDocs documents
InitProgress ==
  /\ \E n \in 0..MaxDocs :
       \E sts \in [1..n -> {"pending", "launched", "rejected"}] :
         /\ notes = [k \in 1..n |-> Document(k, sts[k])]
         /\ localStorage = [name \in {"nfe-notes-storage", "nfse-notes-storage"} |->
                              IF name = "nfe-notes-storage"
                              THEN storedNotes([k \in 1..n |-> Document(k, sts[k])])
                              ELSE <<>>]
  /\ selectedNoteId = null
  /\ call = Called("create", null)
  /\ order = <<1, 1>>
  /\ query = null
  /\ resolved = nullFilial
  /\ nfseNotes = <<>>
  /\ selectedNfseId = null
  /\ files = <<>>
  /\ isProcessing = FALSE
  /\ run = [pc |-> "idle"]
  /\ dropped = {}
  /\ quota = "free"
  /\ edit = NoEdit
  /\ page = PageClosed

NextProgress == DashboardPage

SpecProgress == InitProgress /\ [][NextProgress]_vars

----------------------------------------------------------------------------
(* Clearing either collection, from the store or from the upload page, with  *)
(* writes that succeed or throw.                                             *)

NextClear ==
  \/ \E e \in SessionEntries : addNote(e.filename, e.data)
  \/ \E id \in GeneratedIds : selectNote(id)
  \/ \E id \in GeneratedIds : markAsLaunched(id, undefined, undefined)
  \/ clearNotes
  \/ handleClearAllNotes
  \/ \E e \in NfseEntries : addNfse(e.filename, e.data)
  \/ \E id \in GeneratedIds : selectNfse(id)
  \/ clearNfseNotes
  \/ restart
  \/ storageFills
  \/ storageFrees

SpecClear == Init /\ [][NextClear]_vars
----------------------------------------------------------------------------
(* app/lancamento/page.tsx: the launch page.  A control acts when the render *)
(* of the current state contains it; the rejection dialog is drawn over the  *)
(* page (fixed inset-0) and leaves the controls under it mounted and         *)
(* enabled.  The other pages add documents while this one is not mounted.    *)

StatusFilters == {"all", "pending", "launched", "rejected"}

\* the texts typed in the observations field
LaunchTexts == {<<>>, <<"o", "k">>}

\* notes.find((n) => n.id === selectedNoteId), as an index of notes (0: undefined)
selectedNote ==
  LET found == {i \in 1..Len(notes) : notes[i].id = selectedNoteId} IN
  IF found = {} THEN 0 ELSE CHOOSE i \in found : \A j \in found : i <= j

\* selectedNote?.launchInfo?.status || "pending"
currentStatus ==
  IF selectedNote = 0 \/ "launchInfo" \notin DOMAIN notes[selectedNote]
  THEN "pending"
  ELSE notes[selectedNote].launchInfo.status

filteredNotes ==
  CASE page.statusFilter = "pending" -> getPendingNotes
    [] page.statusFilter = "launched" -> getLaunchedNotes
    [] page.statusFilter = "rejected" -> getRejectedNotes
    [] OTHER -> notes

\* the render of the next state: without a selected note, the first note of the
\* filtered list is selected (and the page rendered again)
render(selected) ==
  IF selected \notin NoteIds(notes') /\ Len(filteredNotes') > 0
  THEN filteredNotes'[1].id
  ELSE selected

\* no other pending note found
pending_none(id) == <<>>

\* getPendingNotes().filter(n => n.id !== selectedNote.id), after the store call
pending(id) == SelectSeq(getPendingNotes', LAMBDA n : n.id # id)

\* the page is opened
LancamentoPage ==
  /\ ~page.open
  /\ page' = [PageClosed EXCEPT !.open = TRUE]
  /\ UNCHANGED notes
  /\ selectedNoteId' = render(selectedNoteId)
  /\ call' = Called("LancamentoPage", null)
  /\ RegistryIdle
  /\ NfseIdle
  /\ UploadIdle
  /\ setItem("nfe-notes-storage", storedNotes(notes'))

\* the operator goes to another page
unmount ==
  /\ page.open
  /\ page' = PageClosed
  /\ call' = Called("unmount", null)
  /\ NfeIdle
  /\ RegistryIdle
  /\ NfseIdle
  /\ UploadIdle
  /\ StorageIdle

setStatusFilter(statusFilter) ==
  /\ page.open
  /\ page' = [page EXCEPT !.statusFilter = statusFilter]
  /\ UNCHANGED notes
  /\ selectedNoteId' = render(selectedNoteId)
  /\ call' = Called("setStatusFilter", null)
  /\ RegistryIdle
  /\ NfseIdle
  /\ UploadIdle
  /\ setItem("nfe-notes-storage", storedNotes(notes'))

\* onClick={() => selectNote(note.id)} of an entry of the filtered list
onClickNote(id) ==
  /\ page.open
  /\ id \in NoteIds(filteredNotes)
  /\ selectedNoteId' = id
  /\ call' = Called("selectNote", id)
  /\ UNCHANGED <<notes, page>>
  /\ RegistryIdle
  /\ NfseIdle
  /\ UploadIdle
  /\ setItem("nfe-notes-storage", storedNotes(notes'))

\* the observations field of the card of a pending note
setLaunchNotes(text) ==
  /\ page.open
  /\ selectedNote # 0
  /\ currentStatus = "pending"
  /\ page' = [page EXCEPT !.launchNotes = text]
  /\ call' = Called("setLaunchNotes", null)
  /\ NfeIdle
  /\ RegistryIdle
  /\ NfseIdle
  /\ UploadIdle
  /\ StorageIdle

\* the button Rejeitar of the card of a pending note
openRejectModal ==
  /\ page.open
  /\ selectedNote # 0
  /\ currentStatus = "pending"
  /\ page' = [page EXCEPT !.showRejectModal = TRUE]
  /\ call' = Called("setShowRejectModal", null)
  /\ NfeIdle
  /\ RegistryIdle
  /\ NfseIdle
  /\ UploadIdle
  /\ StorageIdle

\* the text field of the dialog
setRejectReason(reason) ==
  /\ page.open
  /\ selectedNote # 0
  /\ page.showRejectModal
  /\ page' = [page EXCEPT !.rejectReason = reason]
  /\ call' = Called("setRejectReason", null)
  /\ NfeIdle
  /\ RegistryIdle
  /\ NfseIdle
  /\ UploadIdle
  /\ StorageIdle

\* the button Cancelar of the dialog
cancelReject ==
  /\ page.open
  /\ selectedNote # 0
  /\ page.showRejectModal
  /\ page' = [page EXCEPT !.showRejectModal = FALSE, !.rejectReason = <<>>]
  /\ call' = Called("cancelReject", null)
  /\ NfeIdle
  /\ RegistryIdle
  /\ NfseIdle
  /\ UploadIdle
  /\ StorageIdle

\* the button of the card of a pending note.  markAsLaunched throws when the
\* write to the storage does, after the store was updated: the rest of the
\* handler does not run then
handleMarkAsLaunched ==
  /\ page.open
  /\ selectedNote # 0
  /\ currentStatus = "pending"
  /\ \E t \in Times :
       notes' = [i \in 1..Len(notes) |->
                   IF matches(notes[i], selectedNoteId)
                   THEN launched(notes[i], t, undefined,
                                 IF page.launchNotes = <<>> THEN undefined
                                 ELSE page.launchNotes)
                   ELSE notes[i]]
  /\ call' = Acted("handleMarkAsLaunched", selectedNoteId)
  /\ IF quota = "exceeded"
     THEN UNCHANGED <<selectedNoteId, page>>
     ELSE /\ page' = [page EXCEPT !.launchNotes = <<>>]
          /\ selectedNoteId' =
               IF Len(pending(selectedNoteId)) > 0
               THEN pending(selectedNoteId)[1].id
               ELSE selectedNoteId
  /\ RegistryIdle
  /\ NfseIdle
  /\ UploadIdle
  /\ setItem("nfe-notes-storage", storedNotes(notes'))

\* the button Confirmar of the dialog, which is disabled while the reason is
\* blank; the handler tests the reason again
handleMarkAsRejected ==
  /\ page.open
  /\ selectedNote # 0
  /\ page.showRejectModal
  /\ IF IsBlank(page.rejectReason)
     THEN /\ call' = spread(Acted("handleMarkAsRejected", selectedNoteId),
                            [result |-> "ignored"])
          /\ UNCHANGED <<notes, selectedNoteId, page>>
          /\ StorageIdle
     ELSE /\ \E t \in Times :
               notes' = [i \in 1..Len(notes) |->
                           IF matches(notes[i], selectedNoteId)
                           THEN rejected(notes[i], t, page.rejectReason, undefined)
                           ELSE notes[i]]
          /\ call' = Acted("handleMarkAsRejected", selectedNoteId)
          /\ IF quota = "exceeded"
             THEN UNCHANGED <<selectedNoteId, page>>
             ELSE /\ page' = [page EXCEPT !.rejectReason = <<>>,
                                          !.showRejectModal = FALSE]
                  /\ selectedNoteId' =
                       IF Len(pending(selectedNoteId)) > 0
                       THEN pending(selectedNoteId)[1].id
                       ELSE selectedNoteId
          /\ setItem("nfe-notes-storage", storedNotes(notes'))
  /\ RegistryIdle
  /\ NfseIdle
  /\ UploadIdle

\* the button Desfazer of the card of a launched or rejected note
handleResetStatus ==
  /\ page.open
  /\ selectedNote # 0
  /\ currentStatus \in {"launched", "rejected"}
  /\ notes' = [i \in 1..Len(notes) |->
                IF matches(notes[i], selectedNoteId) THEN reset(notes[i]) ELSE notes[i]]
  /\ call' = Acted("handleResetStatus", selectedNoteId)
  /\ UNCHANGED <<selectedNoteId, page>>
  /\ RegistryIdle
  /\ NfseIdle
  /\ UploadIdle
  /\ setItem("nfe-notes-storage", storedNotes(notes'))

NextLaunch ==
  \/ \E e \in SessionEntries : ~page.open /\ addNote(e.filename, e.data)
  \/ LancamentoPage
  \/ unmount
  \/ \E statusFilter \in StatusFilters : setStatusFilter(statusFilter)
  \/ \E id \in GeneratedIds : onClickNote(id)
  \/ \E text \in LaunchTexts : setLaunchNotes(text)
  \/ openRejectModal
  \/ \E reason \in Reasons : setRejectReason(reason)
  \/ cancelReject
  \/ handleMarkAsLaunched
  \/ handleMarkAsRejected
  \/ handleResetStatus

SpecLaunch == Init /\ [][NextLaunch]_vars

----------------------------------------------------------------------------
(* The store created over an item that an earlier version of the page had     *)
(* written: documents without launchInfo, which the getters provide for       *)
(* (n.launchInfo?.status, !n.launchInfo).                                     *)

\* a document as the storage holds it, without the lifecycle record
legacyNote(id) ==
  [id |-> id,
   filename |-> <<"n", ".", "x", "m", "l">>,
   data |-> Payloads[3],
   processedAt |-> toJSON(Date(0)),
   filial |-> identifyFilial(Payloads[3].dest.doc)]

LegacyItems == {<<>>, <<legacyNote(<<"a">>)>>, <<legacyNote(<<"b">>), legacyNote(<<"a">>)>>}

InitLegacy ==
  /\ notes \in LegacyItems
  /\ localStorage = [name \in {"nfe-notes-storage", "nfse-notes-storage"} |->
                       IF name = "nfe-notes-storage" THEN notes ELSE <<>>]
  /\ selectedNoteId = null
  /\ call = Called("create", null)
  /\ order = <<1, 1>>
  /\ query = null
  /\ resolved = nullFilial
  /\ nfseNotes = <<>>
  /\ selectedNfseId = null
  /\ files = <<>>
  /\ isProcessing = FALSE
  /\ run = [pc |-> "idle"]
  /\ dropped = {}
  /\ quota = "free"
  /\ edit = NoEdit
  /\ page = PageClosed

NextLegacy ==
  \/ \E e \in SessionEntries : addNote(e.filename, e.data)
  \/ \E id \in GeneratedIds : removeNote(id)
  \/ \E id \in GeneratedIds : selectNote(id)
  \/ \E id \in GeneratedIds : markAsLaunched(id, undefined, undefined)
  \/ \E id \in GeneratedIds : markAsRejected(id, <<"n", "o">>, undefined)
  \/ \E id \in GeneratedIds : resetLaunchStatus(id)
  \/ DashboardPage
  \/ restart

SpecLegacy == InitLegacy /\ [][NextLegacy]_vars

----------------------------------------------------------------------------
(* Properties of the ledger and of the registry *)

Lifecycle == {"markAsLaunched", "markAsRejected", "resetLaunchStatus"}

StatusOf(n) == n.launchInfo.status

LaunchFields == {"launchedAt", "launchedBy", "notes"}
RejectFields == {"rejectedAt", "rejectedBy", "rejectionReason"}

\* the field is present in the lifecycle record with a value other than undefined
Populated(info, field) ==
  /\ field \in DOMAIN info
  /\ field \in {"launchedAt", "rejectedAt"} \/ info[field] # undefined

\* the catalog positions of the units that carry a tax id
Carriers(digits) == {i \in 1..Len(FILIAIS) : FILIAIS[i].cnpj = digits}

\* the lifecycle call that just completed named an id no note has
UnknownIdCall == call'.op \in Lifecycle /\ call'.id \notin NoteIds(notes)

\* C1: a launch, reject or reset call changes a note's status only along
\* pending->launched, pending->rejected, launched->pending, rejected->pending:
\* never directly between launched and rejected.
C1_NoDirectEdge ==
  [][call'.op \in Lifecycle =>
       /\ Len(notes') = Len(notes)
       /\ \A i \in 1..Len(notes) :
            \/ StatusOf(notes'[i]) = StatusOf(notes[i])
            \/ <<StatusOf(notes[i]), StatusOf(notes'[i])>> \in
                 {<<"pending", "launched">>, <<"pending", "rejected">>,
                  <<"launched", "pending">>, <<"rejected", "pending">>}]_vars

\* C2: in every state a pending note has no launch and no rejection field
\* populated, a launched note no rejection field, a rejected note no launch field.
C2_FieldsMatchStatus ==
  \A i \in 1..Len(notes) :
    LET info == notes[i].launchInfo IN
    /\ info.status = "pending" =>
         \A f \in LaunchFields \cup RejectFields : ~Populated(info, f)
    /\ info.status = "launched" => \A f \in RejectFields : ~Populated(info, f)
    /\ info.status = "rejected" => \A f \in LaunchFields : ~Populated(info, f)

\* C3: the unit a note was given at ingestion is the same after every later
\* launch, reject, reset, select, ingest, and removal of notes with another id.
C3_FilialFixed ==
  [][CASE call'.op = "clearNotes" -> TRUE
       [] call'.op = "removeNote" ->
            LET kept == SelectSeq(notes, LAMBDA n : n.id # call'.id) IN
            /\ Len(notes') = Len(kept)
            /\ \A i \in 1..Len(kept) : notes'[i].filial = kept[i].filial
       [] OTHER ->
            /\ Len(notes') >= Len(notes)
            /\ \A i \in 1..Len(notes) : notes'[i].filial = notes[i].filial]_vars

\* C3 witness: a note attributed to a unit has been launched and then rejected
\* while another note is in the collection.
C3_Witness ==
  /\ Len(notes) = 2
  /\ call.op = "markAsRejected"
  /\ \E i \in 1..Len(notes) :
       /\ notes[i].id = call.id
       /\ notes[i].filial # nullFilial
       /\ StatusOf(notes[i]) = "rejected"
       /\ "launchedAt" \in DOMAIN notes[i].launchInfo

\* C4: a lookup of a tax id that several catalog units carry returns the
\* headquarters unit, and the index holds the headquarters under every such id.
C4_SharedIdIsHeadquarters ==
  /\ Cardinality(Carriers(normalizeCnpj(query))) > 1 =>
       /\ resolved # nullFilial
       /\ resolved.tipo = "matriz"
  /\ \A i \in 1..Len(cnpjToFilialMap) :
       Cardinality(Carriers(cnpjToFilialMap[i].key)) > 1 =>
         cnpjToFilialMap[i].value.tipo = "matriz"

\* C4 witness: the shared tax id, punctuated, has been looked up in an index
\* filled after the headquarters changed places with a unit that reuses its id.
C4_Witness ==
  /\ order[1] = 1
  /\ order[2] > 1
  /\ FILIAIS[order[2]].cnpj = CNPJ_MATRIZ
  /\ query = formatCnpj(CNPJ_MATRIZ)
  /\ resolved # nullFilial
  /\ resolved.codigo = 1

\* C5: whatever two catalog entries are exchanged before the index is filled,
\* every tax id resolves to the unit it resolves to in the catalog's own order.
C5_OrderIndependent ==
  /\ resolved = getFilialByCnpj(query)
  /\ query = null =>
       LET index == buildIndex(exchange(FILIAIS, order)) IN
       \A d \in QueryDigits : MapGet(index, d) = MapGet(cnpjToFilialMap, d)

\* C5 witness: two units that carry the same tax id were exchanged and that
\* tax id has been looked up.
C5_Witness ==
  /\ order[1] # order[2]
  /\ FILIAIS[order[1]].cnpj = FILIAIS[order[2]].cnpj
  /\ normalizeCnpj(query) = FILIAIS[order[1]].cnpj
  /\ resolved # nullFilial

\* C6: every note whose normalized buyer tax id is the headquarters' tax id is
\* attributed to the headquarters unit.
C6_SharedIdNotesAtHeadquarters ==
  \A i \in 1..Len(notes) :
    normalizeCnpj(notes[i].data.dest.doc) = getMatriz.cnpj =>
      /\ notes[i].filial # nullFilial
      /\ notes[i].filial.codigo = getMatriz.codigo
      /\ notes[i].filial.tipo = "matriz"

\* C6 witness: a note bearing the punctuated headquarters tax id has been
\* ingested and launched.
C6_Witness ==
  \E i \in 1..Len(notes) :
    /\ notes[i].data.dest.doc = formatCnpj(CNPJ_MATRIZ)
    /\ notes[i].filial # nullFilial
    /\ StatusOf(notes[i]) = "launched"

\* C7: a lookup returns the headquarters for the headquarters' tax id, the
\* owning unit for a tax id one unit carries, and null for a tax id no unit
\* carries and for null or empty input, in every punctuation of the input.
C7_Resolve ==
  /\ \A d \in QueryDigits :
       query \in {d, formatCnpj(d), spaced(d)} =>
         /\ d = getMatriz.cnpj => resolved = getMatriz
         /\ \A i \in 1..Len(FILIAIS) : Carriers(d) = {i} => resolved = FILIAIS[i]
         /\ Carriers(d) = {} => resolved = nullFilial
  /\ query \in {null, undefined, <<>>, <<".", "/", "-">>} => resolved = nullFilial

\* C7 witness: the punctuated tax id of a unit that alone carries it has been
\* looked up and that unit returned.
C7_Witness ==
  /\ query = formatCnpj(FILIAIS[2].cnpj)
  /\ query # FILIAIS[2].cnpj
  /\ resolved # nullFilial
  /\ resolved.codigo = 2

\* C8: markAsRejected with an empty or all-blank reason fails with
\* InvalidArgument and leaves every note as it was.
C8_BlankReasonRefused ==
  [][\A id \in GeneratedIds, r \in Reasons, o \in Operators :
       (IsBlank(r) /\ markAsRejected(id, r, o)) =>
         (call'.result = "InvalidArgument" /\ notes' = notes)]_vars

\* C9: a launch, reject or reset call with an id no note has reports NotFound.
C9_UnknownIdReported ==
  [][UnknownIdCall => call'.result = "NotFound"]_vars

\* C10: a launch, reject or reset call with an id no note has leaves the
\* collection and the selection as they were.
C10_UnknownIdNoChange ==
  [][UnknownIdCall => (notes' = notes /\ selectedNoteId' = selectedNoteId)]_vars

\* C10 witness: a lifecycle call named an id no note has while the collection
\* held a selected note.
C10_Witness ==
  /\ call.op \in Lifecycle
  /\ call.id \notin NoteIds(notes)
  /\ notes # <<>>
  /\ selectedNoteId # null

\* C11: resetLaunchStatus leaves every note of the given id, whatever its
\* status was, with status pending and no launch or rejection field: the
\* lifecycle record a note has right after ingestion.
C11_ResetClears ==
  [][call'.op = "resetLaunchStatus" =>
       /\ Len(notes') = Len(notes)
       /\ \A i \in 1..Len(notes) :
            notes[i].id = call'.id =>
              /\ StatusOf(notes'[i]) = "pending"
              /\ \A f \in LaunchFields \cup RejectFields :
                   ~Populated(notes'[i].launchInfo, f)
              /\ notes'[i].launchInfo =
                   newNote(notes[i].id, notes[i].filename, notes[i].data, 0).launchInfo]_vars

\* C11 witness: a launched note has been reset and is pending.
C11_Witness ==
  /\ call.op = "resetLaunchStatus"
  /\ "launched" \in call.on
  /\ \E i \in 1..Len(notes) : notes[i].id = call.id /\ StatusOf(notes[i]) = "pending"

\* C12: markAsLaunched on a note that is already launched leaves it launched
\* with the operator and the notes text of this call and a timestamp of this
\* call, whatever the earlier launch had recorded.
C12_RelaunchOverwrites ==
  [][(call'.op = "markAsLaunched" /\ "launched" \in call'.on) =>
       \A o \in Operators, x \in NoteTexts :
         markAsLaunched(call'.id, o, x) =>
         \A i \in 1..Len(notes) :
           (notes[i].id = call'.id /\ StatusOf(notes[i]) = "launched") =>
             /\ StatusOf(notes'[i]) = "launched"
             /\ notes'[i].launchInfo.launchedBy = o
             /\ notes'[i].launchInfo.notes = x
             /\ notes'[i].launchInfo.launchedAt \in {Date(t) : t \in Times}]_vars

\* C12 witness: a note that was launched has been launched again, this time
\* with a notes text.
C12_Witness ==
  /\ call.op = "markAsLaunched"
  /\ call.on = {"launched"}
  /\ \E i \in 1..Len(notes) :
       /\ notes[i].id = call.id
       /\ StatusOf(notes[i]) = "launched"
       /\ notes[i].launchInfo.notes = <<"o", "k">>

\* C13: in every state of a session the selected id of the NF-e store is null
\* or the id of a note of the collection, and so is the selected id of the
\* NFS-e store.
C13_SelectionListed ==
  /\ selectedNoteId = null \/ selectedNoteId \in NoteIds(notes)
  /\ selectedNfseId = null \/ selectedNfseId \in NfseIds(nfseNotes)

\* C13 witness: after a restart, the selected note has been removed while
\* another note, restored by that restart, stays.
C13_Witness ==
  /\ call.op = "removeNote"
  /\ call.selected
  /\ selectedNoteId = null
  /\ \E i \in 1..Len(notes) : notes[i].processedAt.kind = "string"

\* the positions of the documents of a collection whose id is not the given one
Others(ns, id) == {i \in 1..Len(ns) : ns[i].id # id}

\* the collection after is the documents of Others, unchanged and in their order
KeptInOrder(before, after, id) ==
  /\ Len(after) = Cardinality(Others(before, id))
  /\ \A i \in Others(before, id) :
       after[Cardinality({j \in Others(before, id) : j <= i})] = before[i]

C15_UniqueIds ==
  \A i, j \in 1..Len(notes) : i # j => notes[i].id # notes[j].id

\* C16: addNote appends one note at the end of the collection, with the file
\* name and payload given, status pending, no launch or rejection field, and
\* the unit getFilialByCnpj returns for the payload's buyer tax id; the notes
\* already stored keep their content and position, and the selection stays.
C16_IngestAppends ==
  [][call'.op = "addNote" =>
       \A f \in Filenames, p \in 1..Len(Payloads) :
         addNote(f, Payloads[p]) =>
           LET new == notes'[Len(notes')] IN
           /\ Len(notes') = Len(notes) + 1
           /\ \A i \in 1..Len(notes) : notes'[i] = notes[i]
           /\ new.id = call'.id
           /\ new.filename = f
           /\ new.data = Payloads[p]
           /\ StatusOf(new) = "pending"
           /\ \A fld \in LaunchFields \cup RejectFields : ~Populated(new.launchInfo, fld)
           /\ new.filial = getFilialByCnpj(Payloads[p].dest.doc)
           /\ selectedNoteId' = selectedNoteId]_vars

\* C16 witness: a note attributed to a unit has been ingested behind a note
\* that is launched.
C16_Witness ==
  /\ call.op = "addNote"
  /\ Len(notes) = 2
  /\ StatusOf(notes[1]) = "launched"
  /\ notes[2].id = call.id
  /\ StatusOf(notes[2]) = "pending"
  /\ notes[2].filial # nullFilial

\* the buyer tax ids that are null, absent, malformed or of no catalog unit
Misses ==
  {null, undefined, <<>>, <<"x", "1">>,
   <<"1","1","8","5","8","5","7","0">>,
   <<"0","0","0","0","0","0","0","0","0","0","0","0","0","0">>}

\* C17: addNote with a buyer tax id that is null, absent, malformed or of no
\* catalog unit returns as every addNote does and adds the note, pending, with
\* filial null.
C17_MissIsNoError ==
  [][call'.op = "addNote" =>
       LET new == notes'[Len(notes')] IN
       /\ Len(notes') = Len(notes) + 1
       /\ call'.result = "void"
       /\ new.id = call'.id
       /\ new.data.dest.doc \in Misses =>
            (new.filial = nullFilial /\ StatusOf(new) = "pending")]_vars

\* C17 witness: a note whose payload has a buyer tax id of no catalog unit
\* has been ingested behind a note attributed to a unit.
C17_Witness ==
  /\ call.op = "addNote"
  /\ Len(notes) = 2
  /\ notes[1].filial # nullFilial
  /\ notes[2].data.dest.doc = <<"0","0","0","0","0","0","0","0","0","0","0","0","0","0">>
  /\ notes[2].filial = nullFilial

\* the number of entries of a batch whose buyer tax id resolves to no unit
Unresolved(b) ==
  Cardinality({i \in 1..Len(b) : getFilialByCnpj(b[i].data.dest.doc) = nullFilial})

C19_FailureIsolated ==
  [][call'.op = "extractFile" =>
       /\ call'.result = "thrown" =>
            /\ notes' = notes
            /\ \E k \in 1..Len(files') :
                 files'[k].file = call'.file /\ files'[k].status = "error"
            /\ \A k \in 1..Len(files') :
                 files'[k].status # files[k].status => files'[k].file = call'.file
                                                      \/ files'[k].status = "processing"
       /\ call'.result = "returned" =>
            /\ Len(notes') = Len(notes) + call'.count
            /\ \A k \in 1..Len(notes) : notes'[k] = notes[k]
            /\ \A k \in (Len(notes) + 1)..Len(notes') : notes'[k].filename = call'.file
       /\ \A j \in (call'.at + 1)..Len(run.files) :
            run.files[j].status = "pending" =>
              (run'.pc = "await" /\ run'.i > call'.at /\ run'.i <= j)]_vars

\* the entries of the list that are in status processing
Processing(fs) == {k \in 1..Len(fs) : fs[k].status = "processing"}

\* C20: at every moment at most one entry of the list is in status
\* processing, and a run starts the extraction of its next file only when the
\* entry of the file it extracted before shows success or error.
C20_Sequential ==
  [][/\ Cardinality(Processing(files')) <= 1
     /\ (call'.op = "extractFile" /\ run'.pc = "await") =>
          \E k \in 1..Len(files') :
            /\ files'[k].file = call'.file
            /\ files'[k].status \in {"success", "error"}]_vars

----------------------------------------------------------------------------
(* Persistence *)

StoreOps == {"addNote", "addNotes", "removeNote", "clearNotes",
             "markAsLaunched", "markAsRejected", "resetLaunchStatus"}

\* the instant a timestamp stands for, whatever kind of value holds it
Instant(d) == IF d.kind = "Date" THEN d.ms ELSE d.iso

SameInfo(a, b) ==
  /\ a.status = b.status
  /\ \A f \in LaunchFields \cup RejectFields :
       /\ Populated(a, f) <=> Populated(b, f)
       /\ Populated(a, f) /\ Populated(b, f) =>
            IF f \in DateFields THEN Instant(a[f]) = Instant(b[f]) ELSE a[f] = b[f]

\* the same document: id, file name, payload, unit, status, lifecycle fields,
\* and timestamps of the same instants
SameDocument(a, b) ==
  /\ a.id = b.id
  /\ a.filename = b.filename
  /\ a.data = b.data
  /\ a.filial = b.filial
  /\ Instant(a.processedAt) = Instant(b.processedAt)
  /\ SameInfo(a.launchInfo, b.launchInfo)

SameCollection(as, bs) ==
  /\ Len(as) = Len(bs)
  /\ \A i \in 1..Len(as) : i <= Len(bs) => SameDocument(as[i], bs[i])

\* C21: after every mutating operation of the ledger whose write succeeds, the
\* stored item holds the in-memory collection as the operation left it: every
\* document, in order, with its fields, never a part of it.
C21_WriteThrough ==
  [][(call'.op \in StoreOps /\ quota = "free") =>
       SameCollection(localStorage'["nfe-notes-storage"], notes')]_vars

\* a launch was written through a collection of two documents
C21_Witness ==
  /\ call.op = "markAsLaunched"
  /\ quota = "free"
  /\ Len(notes) = 2
  /\ {StatusOf(notes[1]), StatusOf(notes[2])} = {"pending", "launched"}
  /\ SameCollection(localStorage["nfe-notes-storage"], notes)

\* the timestamps are the same kind of value
SameKinds(a, b) ==
  /\ a.processedAt.kind = b.processedAt.kind
  /\ \A f \in DateFields :
       (f \in DOMAIN a.launchInfo /\ f \in DOMAIN b.launchInfo) =>
         a.launchInfo[f].kind = b.launchInfo[f].kind

\* C22: a restart restores the collection that was persisted: the same
\* documents in the same order, with the same fields, and with timestamps of
\* the same instants and the same kind of value as before the save.
C22_RoundTrip ==
  [][call'.op = "restart" =>
       /\ SameCollection(notes, notes')
       /\ \A i \in 1..Len(notes) : i <= Len(notes') => SameKinds(notes[i], notes'[i])]_vars

\* C23: a mutating operation whose write fails still takes effect in memory
\* and leaves the stored item as it was; the item changes only by a write
\* that succeeds, and a restart loads the item: the last snapshot persisted.
C23_FailedWriteKept ==
  [][/\ (call'.op \in StoreOps /\ quota = "exceeded") =>
          /\ localStorage' = localStorage
          /\ call'.op = "addNote" =>
               /\ Len(notes') = Len(notes) + 1
               /\ notes'[Len(notes')].id = call'.id
               /\ SubSeq(notes', 1, Len(notes)) = notes
          /\ call'.op = "removeNote" =>
               /\ call'.id \notin NoteIds(notes')
               /\ KeptInOrder(notes, notes', call'.id)
          /\ call'.op = "clearNotes" => notes' = <<>>
          /\ call'.op \in Lifecycle =>
               /\ Len(notes') = Len(notes)
               /\ \A i \in 1..Len(notes) :
                    StatusOf(notes'[i]) =
                      IF notes[i].id # call'.id THEN StatusOf(notes[i])
                      ELSE IF call'.op = "markAsLaunched" THEN "launched"
                      ELSE IF call'.op = "markAsRejected" THEN "rejected"
                      ELSE "pending"
     /\ call'.op = "restart" =>
          /\ SameCollection(localStorage["nfe-notes-storage"], notes')
          /\ localStorage' = localStorage
     /\ localStorage' # localStorage => (quota = "free" /\ call'.op \in StoreOps)]_vars

\* an ingestion whose write failed: two documents in memory, one stored
C23_Witness ==
  /\ call.op = "addNote"
  /\ quota = "exceeded"
  /\ Len(notes) = 2
  /\ Len(localStorage["nfe-notes-storage"]) = 1

----------------------------------------------------------------------------
(* Read projections *)

WithStatus(ns, st) == {i \in 1..Len(ns) : StatusOf(ns[i]) = st}

\* r is the documents of ns at the positions idx, in the order of ns
IsProjection(r, ns, idx) ==
  /\ Len(r) = Cardinality(idx)
  /\ \A i \in idx : r[Cardinality({j \in idx : j <= i})] = ns[i]

\* C25: getPendingNotes, getLaunchedNotes and getRejectedNotes return exactly
\* the documents whose current status is the one asked for, in the order of
\* the collection, whatever transitions the documents went through.
C25_ByStatus ==
  /\ IsProjection(getPendingNotes, notes, WithStatus(notes, "pending"))
  /\ IsProjection(getLaunchedNotes, notes, WithStatus(notes, "launched"))
  /\ IsProjection(getRejectedNotes, notes, WithStatus(notes, "rejected"))

\* a document rejected and then launched, after one that is rejected
C25_Witness ==
  /\ Len(notes) = 2
  /\ StatusOf(notes[1]) = "rejected"
  /\ StatusOf(notes[2]) = "launched"
  /\ "rejectedAt" \in DOMAIN notes[2].launchInfo
  /\ getRejectedNotes = <<notes[1]>>
  /\ getLaunchedNotes = <<notes[2]>>
  /\ getPendingNotes = <<>>

----------------------------------------------------------------------------
(* Statistics *)

Attributed(ns) == {i \in 1..Len(ns) : ns[i].filial # nullFilial}

GroupOf(ns, codigo) == {i \in Attributed(ns) : ns[i].filial.codigo = codigo}

RECURSIVE SumOfTotals(_, _)
SumOfTotals(ns, idx) ==
  IF idx = {} THEN 0
  ELSE LET i == CHOOSE j \in idx : TRUE IN
       (IF "vNF" \in DOMAIN ns[i].data.totals THEN ns[i].data.totals.vNF ELSE 0)
         + SumOfTotals(ns, idx \ {i})

RECURSIVE SumOfCounts(_, _)
SumOfCounts(stats, k) ==
  IF k = 0 THEN 0 ELSE stats[k].value.count + SumOfCounts(stats, k - 1)

\* stats groups the attributed documents of ns by unit code: one group for
\* each code, each document in the group of its code, the total of a group the
\* sum of the totals of its documents
IsStatsOf(stats, ns) ==
  /\ \A i, j \in 1..Len(stats) : stats[i].key = stats[j].key => i = j
  /\ {stats[i].key : i \in 1..Len(stats)} = {ns[i].filial.codigo : i \in Attributed(ns)}
  /\ \A i \in 1..Len(stats) :
       /\ stats[i].value.filial.codigo = stats[i].key
       /\ stats[i].value.count = Cardinality(GroupOf(ns, stats[i].key))
       /\ stats[i].value.valor = SumOfTotals(ns, GroupOf(ns, stats[i].key))
  /\ SumOfCounts(stats, Len(stats)) = Cardinality(Attributed(ns))

\* C26: getFilialStats, and the per-unit table of the dashboard over the
\* launched documents, leave out every document without a unit, count every
\* other document in the one group of its unit code, and total each group as
\* the sum of the totals of its documents, a missing total counting as 0.
C26_StatsByUnit ==
  /\ IsStatsOf(getFilialStats, notes)
  /\ call.op = "DashboardPage" =>
       /\ IsStatsOf(call.getFilialStats, notes)
       /\ IsStatsOf(call.filialStatsMap, getLaunchedNotes)

\* the dashboard rendered on a launched document without a unit and a launched
\* document of a unit whose payload has no total
C26_Witness ==
  /\ call.op = "DashboardPage"
  /\ Len(notes) = 2
  /\ StatusOf(notes[1]) = "launched"
  /\ StatusOf(notes[2]) = "launched"
  /\ notes[1].filial = nullFilial
  /\ notes[2].filial # nullFilial
  /\ "vNF" \notin DOMAIN notes[2].data.totals
  /\ Len(call.filialStatsMap) = 1
  /\ call.filialStatsMap[1].value.count = 1
  /\ call.filialStatsMap[1].value.valor = 0

\* C27: the dashboard counts the pending, launched and rejected documents and
\* shows the share of launched documents as the nearest whole percentage:
\* 0 for an empty collection, and between 0 and 100 always.
C27_Progress ==
  call.op = "DashboardPage" =>
    LET total == Len(notes)
        p == call.progressPercentage
        distance == p * total - 100 * call.launched
    IN /\ call.pending = Cardinality(WithStatus(notes, "pending"))
       /\ call.launched = Cardinality(WithStatus(notes, "launched"))
       /\ call.rejected = Cardinality(WithStatus(notes, "rejected"))
       /\ p \in 0..100
       /\ total = 0 => p = 0
       /\ total > 0 => (2 * distance <= total /\ -2 * distance <= total)

\* two of three documents launched: 67 per cent
C27_Witness ==
  /\ call.op = "DashboardPage"
  /\ Len(notes) = 3
  /\ call.launched = 2
  /\ call.rejected = 1
  /\ call.progressPercentage = 67

\* the dashboard rendered on an empty ledger
C27_WitnessEmpty ==
  /\ call.op = "DashboardPage"
  /\ notes = <<>>
  /\ call.progressPercentage = 0

----------------------------------------------------------------------------
(* The headquarters of the catalog *)

Headquarters(catalog) == {i \in 1..Len(catalog) : catalog[i].tipo = "matriz"}

----------------------------------------------------------------------------
(* The tax-id normalizer *)

DigitsAt(x) == {i \in 1..Len(x) : x[i] \in Digit}

\* C29: normalizeCnpj returns the digits of its input, in their order, and
\* nothing else; the empty string for null, undefined and the empty string;
\* and applied to its own result it returns that result.
C29_Normalize ==
  call.op = "normalizeCnpj" =>
    /\ call.arg \in {null, undefined, <<>>} => call.returned = <<>>
    /\ call.arg \notin {null, undefined} =>
         IsProjection(call.returned, call.arg, DigitsAt(call.arg))
    /\ call.again = call.returned

\* the punctuated tax id of the headquarters normalized to its fourteen digits
C29_Witness ==
  /\ call.op = "normalizeCnpj"
  /\ Len(call.arg) = 18
  /\ call.arg[3] = "."
  /\ call.returned = CNPJ_MATRIZ

\* r is the writing XX.XXX.XXX/XXXX-XX of the fourteen digits
IsPunctuated(r, digits) ==
  /\ Len(r) = 18
  /\ r[3] = "." /\ r[7] = "." /\ r[11] = "/" /\ r[16] = "-"
  /\ IsProjection(digits, r, (1..18) \ {3, 7, 11, 16})

\* what C30 says of every result but the one for an input without 14 digits
FormatsFourteen ==
  /\ Len(normalizeCnpj(call.arg)) = 14 =>
       IsPunctuated(call.returned, normalizeCnpj(call.arg))
  /\ (Len(call.arg) = 14 /\ DigitsAt(call.arg) = 1..14) => call.normalized = call.arg
  /\ call.again = call.returned

\* C30 as stated: formatCnpj returns its input unchanged when the input does
\* not have exactly 14 digits, and the punctuated form of the 14 digits
\* otherwise; normalizing the result of a 14-digit input gives the input back,
\* and formatting a result again changes nothing.
C30_FormatOrUnchanged ==
  call.op = "formatCnpj" =>
    /\ Len(normalizeCnpj(call.arg)) # 14 => call.returned = call.arg
    /\ FormatsFourteen

\* C30 amended: as stated, with the empty string returned for null and for
\* undefined.
C30_FormatOrString ==
  call.op = "formatCnpj" =>
    /\ Len(normalizeCnpj(call.arg)) # 14 =>
         call.returned = IF call.arg \in {null, undefined} THEN <<>> ELSE call.arg
    /\ FormatsFourteen

\* a tax id written with blanks formatted to the punctuated form
C30_Witness ==
  /\ call.op = "formatCnpj"
  /\ Len(call.arg) = 17
  /\ call.arg[1] = " "
  /\ Len(call.returned) = 18
  /\ call.returned[11] = "/"
  /\ call.normalized = CNPJ_MATRIZ

----------------------------------------------------------------------------
(* Frame of the lifecycle operations *)

IdsOf(ns) == [i \in 1..Len(ns) |-> ns[i].id]

\* C31: a launch, reject or reset of an id the collection holds changes the
\* lifecycle record of the documents of that id and nothing else: the number
\* and order of the documents, their ids, file names, payloads, timestamps of
\* reception and units, the other documents and the selection stay; documents
\* appear by ingestion only and go by removal or clear only.
C31_LifecycleFrame ==
  [][/\ (call'.op \in Lifecycle /\ call'.on # {}) =>
          /\ Len(notes') = Len(notes)
          /\ \A i \in 1..Len(notes) :
               /\ notes'[i].id = notes[i].id
               /\ notes'[i].filename = notes[i].filename
               /\ notes'[i].data = notes[i].data
               /\ notes'[i].processedAt = notes[i].processedAt
               /\ notes'[i].filial = notes[i].filial
               /\ notes[i].id # call'.id => notes'[i] = notes[i]
          /\ selectedNoteId' = selectedNoteId
          /\ nfseNotes' = nfseNotes
          /\ selectedNfseId' = selectedNfseId
     /\ Len(notes') > Len(notes) => call'.op \in {"addNote", "addNotes"}
     /\ Len(notes') < Len(notes) => call'.op \in {"removeNote", "clearNotes"}
     /\ call'.op \notin {"addNote", "addNotes", "removeNote", "clearNotes"} =>
          IdsOf(notes') = IdsOf(notes)]_vars

\* a pending document was rejected while another document was the selected one
C31_Witness ==
  /\ call.op = "markAsRejected"
  /\ call.on = {"pending"}
  /\ Len(notes) = 2
  /\ notes[1].id # notes[2].id
  /\ selectedNoteId # null
  /\ selectedNoteId # call.id
  /\ selectedNoteId \in NoteIds(notes)


----------------------------------------------------------------------------
(* The launch page *)

\* C32: through the launch page, launch and reject are applied only to the
\* selected document while it is pending, a blank reason changes nothing in
\* the store, reset is applied only to a launched or rejected document, and
\* no document goes from launched to rejected or back in one step
C32_PageGuards ==
  [][/\ (call'.op \in {"handleMarkAsLaunched", "handleMarkAsRejected"} /\ notes' # notes) =>
          /\ selectedNote # 0
          /\ call'.id = selectedNoteId
          /\ currentStatus = "pending"
     /\ (call'.op = "handleMarkAsRejected" /\ IsBlank(page.rejectReason)) =>
          /\ notes' = notes
          /\ selectedNoteId' = selectedNoteId
          /\ localStorage' = localStorage
     /\ call'.op = "handleResetStatus" =>
          /\ selectedNote # 0
          /\ call'.id = selectedNoteId
          /\ currentStatus \in {"launched", "rejected"}
     /\ (page.open /\ page'.open) =>
          \A i \in 1..Len(notes) :
            /\ ~(StatusOf(notes[i]) = "launched" /\ StatusOf(notes'[i]) = "rejected")
            /\ ~(StatusOf(notes[i]) = "rejected" /\ StatusOf(notes'[i]) = "launched")]_vars


C34_SelectionNotDurable ==
  [][call'.op = "restart" =>
       /\ selectedNoteId' = null
       /\ selectedNfseId' = null
       /\ SameCollection(localStorage["nfe-notes-storage"], notes')
       /\ IdsOf(nfseNotes') = IdsOf(localStorage["nfse-notes-storage"])
       /\ SameCollection(notes, notes')
       /\ IdsOf(nfseNotes') = IdsOf(nfseNotes)]_vars

\* a restart with a document selected in each store
C34_Witness ==
  /\ call.op = "restart"
  /\ call.unselected[1] \in NoteIds(notes)
  /\ call.unselected[2] \in NoteIds(nfseNotes)
  /\ selectedNoteId = null
  /\ selectedNfseId = null


----------------------------------------------------------------------------
(* The counters *)

\* C35: every document is returned by exactly one of the three reads by
\* status, a document without lifecycle record by the read of the pending
\* ones, and the three counts of the dashboard add up to the size of the
\* collection
C35_Partition ==
  LET byStatus == <<getPendingNotes, getLaunchedNotes, getRejectedNotes>> IN
  /\ \A i \in 1..Len(notes) :
       Cardinality({g \in 1..3 :
                      \E j \in 1..Len(byStatus[g]) : byStatus[g][j] = notes[i]}) = 1
  /\ Len(byStatus[1]) + Len(byStatus[2]) + Len(byStatus[3]) = Len(notes)
  /\ \A i \in 1..Len(notes) :
       "launchInfo" \notin DOMAIN notes[i] =>
         \E j \in 1..Len(byStatus[1]) : byStatus[1][j] = notes[i]
  /\ call.op = "DashboardPage" =>
       call.pending + call.launched + call.rejected = Len(notes)

\* the dashboard rendered over a restored document without lifecycle record
\* and a launched one
C35_Witness ==
  /\ call.op = "DashboardPage"
  /\ Len(notes) = 2
  /\ "launchInfo" \notin DOMAIN notes[1]
  /\ "launchInfo" \in DOMAIN notes[2]
  /\ notes[2].launchInfo.status = "launched"
  /\ call.pending = 1
  /\ call.launched = 1


----------------------------------------------------------------------------
(* Ingestion of a batch and of its entries one by one *)

\* what one ingestion of an entry makes of a collection: the collection with
\* one more document at its end, pending, with the entry's file name and
\* payload and the unit of its buyer tax id; the id and the timestamp are free
Added(before, after, entry) ==
  /\ Len(after) = Len(before) + 1
  /\ SubSeq(after, 1, Len(before)) = before
  /\ LET n == after[Len(after)] IN
     /\ DOMAIN n = {"id", "filename", "data", "processedAt", "launchInfo", "filial"}
     /\ n.filename = entry.filename
     /\ n.data = entry.data
     /\ n.launchInfo = [status |-> "pending"]
     /\ n.filial = identifyFilial(entry.data.dest.doc)
     /\ n.id \in GeneratedIds
     /\ n.processedAt.kind = "Date"

\* C36: addNote makes of the collection what Added says for its entry, and
\* addNotes of a list makes of it what that many ingestions one after the
\* other make, in the order of the list; nothing else of the store changes
C36_BatchAsSingles ==
  [][call'.op \in {"addNote", "addNotes"} =>
       /\ call'.op = "addNote" => Len(call'.entries) = 1
       /\ Len(notes') = Len(notes) + Len(call'.entries)
       /\ \A k \in 1..Len(call'.entries) :
            Added(SubSeq(notes', 1, Len(notes) + k - 1),
                  SubSeq(notes', 1, Len(notes) + k),
                  call'.entries[k])
       /\ SubSeq(notes', 1, Len(notes)) = notes
       /\ selectedNoteId' = selectedNoteId]_vars

\* a batch of two entries, one of a known unit and one of no unit
C36_Witness ==
  /\ call.op = "addNotes"
  /\ Len(call.entries) = 2
  /\ Len(notes) = 2
  /\ notes[1].filial = nullFilial
  /\ notes[2].filial # nullFilial


----------------------------------------------------------------------------
(* The run of the upload page under edits of the list *)

\* C37: every update a processFiles run makes to the list is made to the
\* entry of the file it submitted: the entry marked processing is the one of
\* the file whose extraction is awaited, and the outcome of an extraction is
\* shown by the entry of the file extracted and changes no other entry
C37_RecordedOnSubmitted ==
  [][/\ (call'.op \in {"processFiles", "extractFile"} /\ run'.pc = "await") =>
          /\ \E k \in 1..Len(files') :
               /\ files'[k].file = run'.files[run'.i].file
               /\ files'[k].status = "processing"
          /\ \A k \in 1..Len(files') :
               files'[k].status = "processing" => files'[k].file = run'.files[run'.i].file
     /\ call'.op = "extractFile" =>
          /\ \E k \in 1..Len(files') :
               /\ files'[k].file = call'.file
               /\ files'[k].status = IF call'.result = "returned" THEN "success" ELSE "error"
          /\ \A k \in 1..Len(files') :
               (files'[k] # files[k] /\ files'[k].status \in {"success", "error"}) =>
                 files'[k].file = call'.file]_vars


\* C38: when all notes are cleared while a processFiles run is waiting for an
\* extraction, the run adds no document any more: the extraction that settles
\* next leaves the collection as the clear left it
C38_ClearEndsRun ==
  [][(call.op = "clearNotes" /\ run.pc = "await" /\ call'.op = "extractFile") =>
       /\ notes = <<>>
       /\ notes' = <<>>]_vars


\* C39: a run of processFiles whose extractions settle finishes: isProcessing
\* is false again, and when the list was not edited during the run every
\* entry that was pending at its start shows success or error, none is left
\* in processing
C39_RunFinishes ==
  isProcessing ~>
    (/\ ~isProcessing
     /\ run.pc = "idle"
     /\ \A k \in 1..Len(files) : files[k].status \in {"success", "error"})

\* a finished run of three files, with extractions that returned and threw
C39_Witness ==
  /\ call.op = "extractFile"
  /\ ~isProcessing
  /\ run.pc = "idle"
  /\ Len(files) = 3
  /\ {files[k].status : k \in 1..3} = {"success", "error"}

====
